---------------------------- MODULE Spec2Model ----------------------------
(***************************************************************************)
(* A model of the "jit" version control core (LiptonB/building-git):       *)
(* lockfile, checksummed index file, index staging, object database,       *)
(* refs, and the add / commit commands.                                    *)
(*                                                                         *)
(* Representation of data                                                  *)
(*   - a string or byte vector held in memory is a sequence of numbers     *)
(*     0..255;                                                             *)
(*   - a file is a sequence of octets.  An octet written from a known      *)
(*     number b is the tuple <<b>>.  The 20 octets of SHA-1(d) are         *)
(*     <<257>> \o d, <<258>>, ..., <<276>>: the first octet carries the    *)
(*     hashed data, so two digests are equal exactly when the hashed data  *)
(*     are equal (SHA-1 taken as injective), and no digest octet equals a  *)
(*     plain octet;                                                        *)
(*   - a u32 is the record [hi, lo] of its two 16-bit halves, a 64-bit     *)
(*     stat value is [ext, hi, lo] with ext its upper 32 bits.             *)
(***************************************************************************)
EXTENDS Integers, Sequences, FiniteSets, TLC

VARIABLES
    \* ---- index data structure under a single owner (SpecIdx) ----
    ist,        \* "mem": an Index value is live; "saved": it was consumed by write_updates
    ientries,   \* Index.entries of the live Index
    ichanged,   \* Index.changed of the live Index
    idisk,      \* content of the index file
    iload,      \* result of the last Index::load
    isaved,     \* the entries handed to the last write_updates
    ilog,       \* the paths of the successful add calls so far, oldest first
    ilast,      \* the arguments of the add call just made, NoAdd after any other call
    irepeat,    \* the add call just made repeated the call before it, argument for argument
    \* ---- the repository and the processes running commands on it (Spec) ----
    fs,         \* .git/index, .git/index.lock, .git/HEAD, .git/HEAD.lock: octets or Absent
    db,         \* .git/objects: oid -> the object stored under the oid's final path
    pc,         \* per process: the step of the command it runs, "idle" between commands
    loc,        \* per process: the local values of the command it runs
    outcome,    \* per process: how its last command ended, "none" while one runs
    ncmds,      \* number of commands started so far
    \* ---- the object directory and the processes storing objects in it (SpecDb) ----
    odirs,      \* the directories .git/objects/<XX> that exist
    onames,     \* the files below them: path -> the octets, and the process that has
                \* the file open (0: none)
    ostore,     \* per process: the store call it runs, step by step
    olog,       \* the renames done so far: who renamed which object to which path
    oclash,     \* open_tempfile has drawn a temp path that named a file already
    ofault,     \* a system call has failed (device full, permission)
    nstores,    \* number of store calls started so far
    \* ---- one ChecksummedFile over a sink or over a source (SpecSum) ----
    cmode,      \* "writer": the calls go to cw; "reader": to cr; "off": to neither
    cw,         \* the writer: what the sink has received, what the hasher was fed
    cwst,       \* "open", or how write_hash ended: "hashed" (Ok), "failed" (Err)
    cr,         \* the reader: the source, the read position, what the hasher was fed
    crgot,      \* the octets the read calls have returned to the caller so far
    crver,      \* the result of verify_checksum, NoVerdict before it
    ncalls,     \* number of read and write calls so far
    \* ---- an index file that is damaged after it was written (SpecFile) ----
    fentries,   \* the entries write_updates wrote the file from
    fbytes,     \* the octets of the index file now
    fdamage,    \* what happened to the file since: nothing, one octet altered, octets appended
    fload,      \* the result of Index::load of the file, NotLoaded before the call
    \* ---- one call of Tree::build (SpecTree) ----
    tin,        \* the Vec<TreeFile> handed to Tree::build, in the caller's order
    tout,       \* the result of Tree::build, NotBuilt before the call
    twalk       \* the result of traverse on the tree built, NotWalked before the call

idxVars == <<ist, ientries, ichanged, idisk, iload, isaved, ilog, ilast, irepeat>>
procVars == <<fs, db, pc, loc, outcome, ncmds>>
storeVars == <<odirs, onames, ostore, olog, oclash, ofault, nstores>>
sumVars == <<cmode, cw, cwst, cr, crgot, crver, ncalls>>
fileVars == <<fentries, fbytes, fdamage, fload>>
treeVars == <<tin, tout, twalk>>
\* what the actions of one specification leave alone
notIdxVars == <<procVars, storeVars, sumVars, fileVars, treeVars>>
notProcVars == <<idxVars, storeVars, sumVars, fileVars, treeVars>>
notStoreVars == <<idxVars, procVars, sumVars, fileVars, treeVars>>
notSumVars == <<idxVars, procVars, storeVars, fileVars, treeVars>>
notFileVars == <<idxVars, procVars, storeVars, sumVars, treeVars>>
notTreeVars == <<idxVars, procVars, storeVars, sumVars, fileVars>>
vars == <<idxVars, procVars, storeVars, sumVars, fileVars, treeVars>>

-----------------------------------------------------------------------------
(* Bounds of the model *)

MaxAdds == 3
MaxCmds == 3
MaxStores == 2
MaxCalls == 2
\* the records handed to one Tree::build
MaxFiles == 3
\* the add calls on one index whose entries are inspected, and the longest path staged
MaxStaged == 2
MaxPathLen == 9

-----------------------------------------------------------------------------
(* Generic helpers *)

Min(a, b) == IF a < b THEN a ELSE b

RECURSIVE Concat(_)
Concat(ss) == IF ss = <<>> THEN <<>> ELSE Head(ss) \o Concat(Tail(ss))

Repeat(x, n) == [i \in 1..n |-> x]

\* Bytewise lexicographic order of two byte strings (Ord for str / [u8]).
RECURSIVE LexLess(_, _)
LexLess(s, t) ==
    IF t = <<>> THEN FALSE
    ELSE IF s = <<>> THEN TRUE
    ELSE IF Head(s) # Head(t) THEN Head(s) < Head(t)
    ELSE LexLess(Tail(s), Tail(t))

-----------------------------------------------------------------------------
(* Octets *)

Octet(b) == <<b>>
Octets(s) == [i \in 1..Len(s) |-> Octet(s[i])]
NUL == Octet(0)
IsPlain(o) == Len(o) = 1 /\ o[1] < 256
\* String::from_utf8_lossy / to_vec of octets read from a file
Plain(os) == [i \in 1..Len(os) |-> os[i][1]]

\* the content of a file that does not exist
Absent == <<<< -1 >>>>

\* crypto::sha1::Sha1 result over the octets fed to the hasher
Sha1(d) == [i \in 1..20 |-> IF i = 1 THEN <<257>> \o d ELSE <<256 + i>>]

-----------------------------------------------------------------------------
(* Fixed-width integers *)

U32(n) == [hi |-> 0, lo |-> n]

\* cookie_factory be_u32 / be_u16 / nom be_u32 / be_u16
BeU32(x) == Octets(<<x.hi \div 256, x.hi % 256, x.lo \div 256, x.lo % 256>>)
BeU16(n) == Octets(<<n \div 256, n % 256>>)
ParseBeU32(os) ==
    [hi |-> os[1][1] * 256 + os[2][1], lo |-> os[3][1] * 256 + os[4][1]]
ParseBeU16(os) == os[1][1] * 256 + os[2][1]

-----------------------------------------------------------------------------
(* Hexadecimal strings (rustc_serialize::hex) *)

HexDigit(n) == IF n < 10 THEN 48 + n ELSE 87 + n
HexValue(c) == IF c < 58 THEN c - 48 ELSE c - 87

\* ToHex: two characters per octet.  The characters of a digest octet <<256+i>> \o d
\* are <<512+i>> \o d and <<1024+i>>.
ToHex(raw) ==
    [j \in 1..(2 * Len(raw)) |->
        LET o == raw[(j + 1) \div 2]
        IN  IF IsPlain(o)
            THEN Octet(HexDigit(IF j % 2 = 1 THEN o[1] \div 16 ELSE o[1] % 16))
            ELSE IF j % 2 = 1 THEN <<o[1] + 256>> \o Tail(o) ELSE <<o[1] + 768>>]

\* FromHex: one octet per two characters
FromHex(hex) ==
    [i \in 1..(Len(hex) \div 2) |->
        LET h == hex[2 * i - 1]
            l == hex[2 * i]
        IN  IF IsPlain(h) THEN Octet(HexValue(h[1]) * 16 + HexValue(l[1]))
            ELSE <<h[1] - 256>> \o Tail(h)]

-----------------------------------------------------------------------------
(* Paths (std::path::PathBuf, relative, canonical) *)

SLASH == 47

\* Path::components of a relative canonical path: the "/"-separated names
RECURSIVE Components(_)
Components(p) ==
    IF p = <<>> THEN <<>>
    ELSE LET first == CHOOSE i \in 1..(Len(p) + 1) :
                          /\ (i = Len(p) + 1 \/ p[i] = SLASH)
                          /\ \A j \in 1..(i - 1) : p[j] # SLASH
         IN  IF first > Len(p) THEN <<p>>
             ELSE <<SubSeq(p, 1, first - 1)>> \o Components(SubSeq(p, first + 1, Len(p)))

\* impl Ord for Path: lexicographic on the components, each compared bytewise
RECURSIVE CompsLess(_, _)
CompsLess(cs, ds) ==
    IF ds = <<>> THEN FALSE
    ELSE IF cs = <<>> THEN TRUE
    ELSE IF Head(cs) # Head(ds) THEN LexLess(Head(cs), Head(ds))
    ELSE CompsLess(Tail(cs), Tail(ds))

PathLess(p, q) == CompsLess(Components(p), Components(q))

\* Path::ancestors: the path itself, its parent, ..., ending with the empty path
Ancestors(p) ==
    {p} \cup {SubSeq(p, 1, i - 1) : i \in {j \in 1..Len(p) : p[j] = SLASH}} \cup {<<>>}

ProperAncestors(p) == Ancestors(p) \ {p, <<>>}

\* a is a directory prefix of b: a followed by "/" is a prefix of b
IsDirPrefix(a, b) ==
    /\ Len(a) < Len(b)
    /\ SubSeq(b, 1, Len(a)) = a
    /\ b[Len(a) + 1] = SLASH

-----------------------------------------------------------------------------
(* Index entries *)

HEADER_SIZE == 12
SIGNATURE == <<68, 73, 82, 67>>
VERSION == 2
REGULAR_MODE == 33188
EXECUTABLE_MODE == 33261
MAX_PATH_SIZE == 4095
ENTRY_BLOCK == 8
ENTRY_MIN_SIZE == 64

NoEntries == [p \in {} |-> 0]

\* metadata.mode() & 0o100
OwnerExecBit(mode) == (mode.lo \div 64) % 2

\* i64 -> u32 by try_into().unwrap(): panics unless the value fits
FitsU32(v) == v.ext = 0
\* u64 -> u32 by `as u32`: keeps the low 32 bits
AsU32(v) == [hi |-> v.hi, lo |-> v.lo]

\* Entry::new panics on a time stamp that is no u32
EntryNewPanics(md) ==
    ~ (FitsU32(md.ctime) /\ FitsU32(md.ctime_nsec) /\ FitsU32(md.mtime) /\ FitsU32(md.mtime_nsec))

\* metadata.mode() & 0o111
AnyExecBit(mode) ==
    IF (mode.lo \div 64) % 2 = 1 \/ (mode.lo \div 8) % 2 = 1 \/ mode.lo % 2 = 1 THEN 1 ELSE 0

\* Entry::new's mode, were it taken from all three execute bits
EntryModeAnyBit(md) ==
    IF AnyExecBit(md.mode) = 0 THEN U32(REGULAR_MODE) ELSE U32(EXECUTABLE_MODE)

\* Entry::new: let mode = if metadata.mode() & 0o100 == 0 { REGULAR } else { EXECUTABLE }
EntryMode(md) == IF OwnerExecBit(md.mode) = 0 THEN U32(REGULAR_MODE) ELSE U32(EXECUTABLE_MODE)

EntryFlags(path) == Min(Len(path), MAX_PATH_SIZE)

\* Entry::new(file, oid, metadata)
EntryNew(path, oid, md) ==
    [ctime |-> AsU32(md.ctime), ctime_nsec |-> AsU32(md.ctime_nsec),
     mtime |-> AsU32(md.mtime), mtime_nsec |-> AsU32(md.mtime_nsec),
     dev |-> AsU32(md.dev), ino |-> AsU32(md.ino),
     mode |-> EntryMode(md),
     uid |-> md.uid, gid |-> md.gid,
     size |-> AsU32(md.size),
     oid |-> FromHex(oid),
     flags |-> EntryFlags(path),
     path |-> path]

AlignNoWrap(amount, out) == out \o Repeat(NUL, amount - (Len(out) % amount))

\* align(amount, f): NUL octets up to the next multiple of amount, counted from f's start
Align(amount, out) == out \o Repeat(NUL, (amount - (Len(out) % amount)) % amount)

\* Entry::serialize
EntrySerialize(e) ==
    Align(ENTRY_BLOCK,
          BeU32(e.ctime) \o BeU32(e.ctime_nsec) \o BeU32(e.mtime) \o BeU32(e.mtime_nsec)
          \o BeU32(e.dev) \o BeU32(e.ino) \o BeU32(e.mode) \o BeU32(e.uid) \o BeU32(e.gid)
          \o BeU32(e.size) \o e.oid \o BeU16(e.flags) \o Octets(e.path) \o <<NUL>>)

\* BTreeMap<PathBuf, Entry>: the keys in iteration order
RECURSIVE SortedKeys(_)
SortedKeys(keys) ==
    IF keys = {} THEN <<>>
    ELSE LET least == CHOOSE k \in keys : \A o \in keys \ {k} : PathLess(k, o)
         IN  <<least>> \o SortedKeys(keys \ {least})

\* Index::iter
IndexIter(entries) ==
    LET ks == SortedKeys(DOMAIN entries) IN [i \in 1..Len(ks) |-> entries[ks[i]]]

\* Index::serialize_entries: what gen_simple emits
SerializeEntries(entries) ==
    LET es == IndexIter(entries)
    IN  Octets(SIGNATURE) \o BeU32(U32(VERSION)) \o BeU32(U32(Cardinality(DOMAIN entries)))
        \o Concat([i \in 1..Len(es) |-> EntrySerialize(es[i])])

\* BTreeMap::remove for each of the keys / BTreeMap::insert
MapRemove(entries, keys) == [k \in (DOMAIN entries) \ keys |-> entries[k]]
MapInsert(entries, key, e) ==
    [k \in (DOMAIN entries) \cup {key} |-> IF k = key THEN e ELSE entries[k]]

DiscardParentOnly(entries, path) ==
    MapRemove(entries, {a \in Ancestors(path) : \A b \in ProperAncestors(path) : Len(b) <= Len(a)})

\* Index::discard_conflicts
DiscardConflicts(entries, path) == MapRemove(entries, Ancestors(path))

IndexAddUnlessStaged(entries, path, oid, md) ==
    IF path \in DOMAIN entries THEN DiscardConflicts(entries, path)
    ELSE MapInsert(DiscardConflicts(entries, path), path, EntryNew(path, oid, md))

\* Index::add, after a successful stat: the new entries
IndexAdd(entries, path, oid, md) ==
    MapInsert(DiscardConflicts(entries, path), path, EntryNew(path, oid, md))

-----------------------------------------------------------------------------
(* Checksummed reader over a file (index/checksum.rs) and the index parser *)

\* A reader: the file's octets, the read position, the octets fed to the hasher
NewReader(bytes) == [src |-> bytes, pos |-> 0, hashed |-> <<>>]

\* File::read into a buffer of n octets: how many octets it delivers
InnerRead(r, n) == Min(n, Len(r.src) - r.pos)

\* impl Read for ChecksummedFile: read(buf).  buf is the buffer as passed in;
\* the whole buffer is fed to the hasher, whatever the inner read delivered.
ChecksummedReadGot(r, filled, got) ==
    [got |-> got, buf |-> filled,
     r |-> [r EXCEPT !.pos = r.pos + got, !.hashed = r.hashed \o filled]]

\* the caller's buffer after the inner read has put got octets into it
Filled(r, buf, got) ==
    [i \in 1..Len(buf) |-> IF i <= got THEN r.src[r.pos + i] ELSE buf[i]]

\* the same call over a source that delivers got octets this time
ChecksummedReadShort(r, buf, got) == ChecksummedReadGot(r, Filled(r, buf, got), got)

ChecksummedRead(r, buf) == ChecksummedReadShort(r, buf, InnerRead(r, Len(buf)))

\* Read::read_exact (the default method) on a ChecksummedFile
RECURSIVE ChecksummedReadExact(_, _)
ChecksummedReadExact(r, buf) ==
    IF buf = <<>> THEN [ok |-> TRUE, buf |-> <<>>, r |-> r]
    ELSE LET one == ChecksummedRead(r, buf)
         IN  IF one.got = 0 THEN [ok |-> FALSE, buf |-> one.buf, r |-> one.r]
             ELSE LET rest == ChecksummedReadExact(one.r, SubSeq(one.buf, one.got + 1, Len(buf)))
                  IN  [ok |-> rest.ok, buf |-> SubSeq(one.buf, 1, one.got) \o rest.buf, r |-> rest.r]

VerifyChecksumPresent(r) ==
    [ok |-> Len(r.src) - r.pos >= 20, equal |-> Len(r.src) - r.pos >= 20]

\* ChecksummedFile::verify_checksum: the digest so far against the next 20
\* octets, which are read from the inner file and not fed to the hasher
VerifyChecksum(r) ==
    LET computed == Sha1(r.hashed)
    IN  IF Len(r.src) - r.pos < Len(computed) THEN [ok |-> FALSE, equal |-> FALSE]
        ELSE [ok |-> TRUE, equal |-> computed = SubSeq(r.src, r.pos + 1, r.pos + Len(computed))]

\* Index::read_header
ReadHeader(r) ==
    LET one == ChecksummedRead(r, Repeat(NUL, HEADER_SIZE))
        signature == SubSeq(one.buf, 1, 4)
        version == ParseBeU32(SubSeq(one.buf, 5, 8))
        count == ParseBeU32(SubSeq(one.buf, 9, 12))
    IN  [ok |-> signature = Octets(SIGNATURE) /\ version = U32(VERSION),
         count |-> count, r |-> one.r]

\* parse_entry: "incomplete" when no NUL ends the path inside data
ParseEntry(data) ==
    LET nuls == {i \in 63..Len(data) : data[i] = NUL}
    IN  IF nuls = {} THEN [res |-> "incomplete"]
        ELSE LET first == CHOOSE i \in nuls : \A j \in nuls : i <= j
                 \* many_m_n(1, 8, tag("\0"))
                 pad == CHOOSE k \in 1..8 :
                            /\ \A j \in first..(first + k - 1) : j <= Len(data) /\ data[j] = NUL
                            /\ (k = 8 \/ first + k > Len(data) \/ data[first + k] # NUL)
             IN  [res |-> "ok",
                  extra |-> SubSeq(data, first + pad, Len(data)),
                  entry |-> [ctime |-> ParseBeU32(SubSeq(data, 1, 4)),
                             ctime_nsec |-> ParseBeU32(SubSeq(data, 5, 8)),
                             mtime |-> ParseBeU32(SubSeq(data, 9, 12)),
                             mtime_nsec |-> ParseBeU32(SubSeq(data, 13, 16)),
                             dev |-> ParseBeU32(SubSeq(data, 17, 20)),
                             ino |-> ParseBeU32(SubSeq(data, 21, 24)),
                             mode |-> ParseBeU32(SubSeq(data, 25, 28)),
                             uid |-> ParseBeU32(SubSeq(data, 29, 32)),
                             gid |-> ParseBeU32(SubSeq(data, 33, 36)),
                             size |-> ParseBeU32(SubSeq(data, 37, 40)),
                             oid |-> SubSeq(data, 41, 60),
                             flags |-> ParseBeU16(SubSeq(data, 61, 62)),
                             path |-> Plain(SubSeq(data, 63, first - 1))]]

\* the inner loop of read_entries: parse, reading ENTRY_BLOCK more octets while incomplete
RECURSIVE ReadOneEntry(_, _)
ReadOneEntry(r, data) ==
    LET parsed == ParseEntry(data)
    IN  IF parsed.res = "ok"
        THEN [ok |-> parsed.extra = <<>>, entry |-> parsed.entry, r |-> r]
        ELSE LET more == ChecksummedReadExact(r, Repeat(NUL, ENTRY_BLOCK))
             IN  IF more.ok THEN ReadOneEntry(more.r, data \o more.buf)
                 ELSE [ok |-> FALSE, entry |-> <<>>, r |-> more.r]

\* Index::read_entries
RECURSIVE ReadEntries(_, _, _)
ReadEntries(r, count, entries) ==
    IF ~ (count.hi > 0 \/ Cardinality(DOMAIN entries) < count.lo)
    THEN [ok |-> TRUE, entries |-> entries, r |-> r]
    ELSE LET min == ChecksummedReadExact(r, Repeat(NUL, ENTRY_MIN_SIZE))
         IN  IF ~ min.ok THEN [ok |-> FALSE, entries |-> entries, r |-> min.r]
             ELSE LET one == ReadOneEntry(min.r, min.buf)
                  IN  IF ~ one.ok THEN [ok |-> FALSE, entries |-> entries, r |-> one.r]
                      ELSE ReadEntries(one.r, count,
                                       MapInsert(entries, one.entry.path, one.entry))

\* Index::load_entries, after read_entries: verify_checksum
LoadChecked(es, sum) ==
    [ok |-> sum.ok /\ sum.equal,
     entries |-> IF sum.ok /\ sum.equal THEN es.entries ELSE NoEntries,
     pos |-> es.r.pos]

\* Index::load_entries, after read_header: read_entries
LoadRead(es) ==
    IF ~ es.ok THEN [ok |-> FALSE, entries |-> NoEntries, pos |-> es.r.pos]
    ELSE LoadChecked(es, VerifyChecksum(es.r))

\* Index::load_entries, after the file is opened: read_header
LoadOpened(hdr) ==
    IF ~ hdr.ok THEN [ok |-> FALSE, entries |-> NoEntries, pos |-> hdr.r.pos]
    ELSE LoadRead(ReadEntries(hdr.r, hdr.count, NoEntries))

\* Index::load_entries: header, entries, checksum
LoadEntries(bytes) == LoadOpened(ReadHeader(NewReader(bytes)))

\* File::open(&path): Ok(file), or the Err of a missing file, or the Err of a file
\* that exists and cannot be opened (permission denied, too many open files)
FileOpen(content, openable) ==
    IF content = Absent THEN "NotFound" ELSE IF openable THEN "Ok" ELSE "Other"

\* Index::load, the match on File::open: Err(_) => BTreeMap::new()
IndexLoadOpen(opened, content) ==
    IF opened = "Ok" THEN LoadEntries(content)
    ELSE [ok |-> TRUE, entries |-> NoEntries, pos |-> 0]

\* Index::load of a file that opens when it exists
IndexLoad(content) == IndexLoadOpen(FileOpen(content, TRUE), content)

-----------------------------------------------------------------------------
(* Checksummed writer (index/checksum.rs) over a sink *)

\* A sink that takes every octet (a file on a device with room, a Vec<u8>)
Unlimited == [limited |-> FALSE, left |-> 0]
\* A sink that takes n more octets and then accepts nothing (device full, quota)
Limited(n) == [limited |-> TRUE, left |-> n]

NewWriter(room) == [out |-> <<>>, hashed |-> <<>>, room |-> room]

\* File::write as LockfileGuard::write passes it on: accepts a prefix of buf and reports
\* its length; with no room left for a non-empty buf the call is an error
SinkWrite(w, buf) ==
    LET n == IF w.room.limited THEN Min(Len(buf), w.room.left) ELSE Len(buf)
    IN  [ok |-> ~ (w.room.limited /\ w.room.left = 0 /\ buf # <<>>),
         n |-> n,
         w |-> [w EXCEPT !.out = w.out \o SubSeq(buf, 1, n),
                         !.room = [w.room EXCEPT !.left = IF w.room.limited THEN w.room.left - n ELSE 0]]]

\* impl Write for ChecksummedFile: the hasher takes buf, then the sink is written
ChecksummedWrite(w, buf) == SinkWrite([w EXCEPT !.hashed = w.hashed \o buf], buf)

\* the same call on a sink that takes at most chunk octets in one call
ChecksummedWriteChunk(w, buf, chunk) ==
    ChecksummedWrite([w EXCEPT !.room = Limited(chunk)], buf)

\* Write::write_all (the default method) on a ChecksummedFile: write is called with
\* what is left of buf until nothing is left; Ok(0) is the error WriteZero
RECURSIVE ChecksummedWriteAll(_, _, _)
WriteAllNext(one, buf, chunk) ==
    IF ~ one.ok \/ one.n = 0 THEN [ok |-> FALSE, w |-> one.w]
    ELSE ChecksummedWriteAll(one.w, SubSeq(buf, one.n + 1, Len(buf)), chunk)
ChecksummedWriteAll(w, buf, chunk) ==
    IF buf = <<>> THEN [ok |-> TRUE, w |-> w]
    ELSE WriteAllNext(ChecksummedWriteChunk(w, buf, chunk), buf, chunk)

\* cf::gen_simple(serialize_entries, file): every serializer writes its octets with one
\* write call and fails when the call accepts fewer, so the sink receives the longest
\* prefix it has room for and the call is Ok exactly when that is everything
GenSimpleDone(one, ser) == [ok |-> one.ok /\ one.n = Len(ser), w |-> one.w]
GenSimple(w, ser) == GenSimpleDone(ChecksummedWrite(w, ser), ser)

\* ChecksummedFile::write_hash: one write call; Ok(count) unless the call is an error
WriteHash(w) == SinkWrite(w, Sha1(w.hashed))

\* Index::write_updates on a changed index, up to the commit of the lock: the callers
\* of write_hash drop the count it returns
EmitHashed(hash) == [ok |-> hash.ok, out |-> hash.w.out]
EmitGenerated(gen) ==
    IF gen.ok THEN EmitHashed(WriteHash(gen.w)) ELSE [ok |-> FALSE, out |-> gen.w.out]
EmitIndex(entries, room) ==
    EmitGenerated(GenSimple(NewWriter(room), SerializeEntries(entries)))

-----------------------------------------------------------------------------
(* Objects (database/object.rs, database/blob.rs) *)

SPACE == 32
TypeBlob == <<98, 108, 111, 98>>

\* usize::to_string
RECURSIVE Decimal(_)
Decimal(n) == IF n < 10 THEN <<48 + n>> ELSE Decimal(n \div 10) \o <<48 + (n % 10)>>

\* to_bytes: "<type> <len>\0<content>"
ToBytes(type, content) ==
    Octets(type) \o <<Octet(SPACE)>> \o Octets(Decimal(Len(content))) \o <<NUL>> \o content

OidOfPayload(type, content) == ToHex(Sha1(content))

\* compute_oid: the hex digest of the canonical bytes
Oid(type, content) == ToHex(Sha1(ToBytes(type, content)))

-----------------------------------------------------------------------------
(* Trees (database/tree.rs) *)

TypeTree == <<116, 114, 101, 101>>
DIRECTORY_MODE == <<52, 48, 48, 48, 48>>
TREE_REGULAR_MODE == <<49, 48, 48, 54, 52, 52>>
TREE_EXECUTABLE_MODE == <<49, 48, 48, 55, 53, 53>>

\* Tree::new
EmptyTree == [key_order |-> <<>>, entries |-> [n \in {} |-> 0]]

\* TreeFile::new as commit::execute calls it for an index entry
TreeFileNew(rel_path, oid, mode) == [rel_path |-> rel_path, oid |-> oid, mode |-> mode]

\* TreeEntry::File / TreeEntry::Tree
FileNode(file) == [kind |-> "file", file |-> file, tree |-> EmptyTree]
TreeNode(tree) == [kind |-> "tree", file |-> TreeFileNew(<<>>, <<>>, U32(0)), tree |-> tree]

\* TreeFile::mode
TreeFileMode(file) ==
    IF OwnerExecBit(file.mode) # 0 THEN TREE_EXECUTABLE_MODE ELSE TREE_REGULAR_MODE

\* TreeFile::ancestors: the names of the directories above the file, outermost first
TreeFileAncestors(file) ==
    LET cs == Components(file.rel_path) IN SubSeq(cs, 1, Len(cs) - 1)

\* rel_path.file_name()
FileName(path) == LET cs == Components(path) IN cs[Len(cs)]

\* Tree::add_entry: the entry under the first parent, made a Tree::new when missing
WithDirectory(tree, name) ==
    IF name \in DOMAIN tree.entries THEN tree
    ELSE [key_order |-> Append(tree.key_order, name),
          entries |-> MapInsert(tree.entries, name, TreeNode(EmptyTree))]

\* Tree::add_entry, were a file in the way of a directory replaced by the directory
RECURSIVE AddEntryReplacing(_, _, _)
AddEntryReplacing(tree, parents, entry) ==
    IF parents = <<>>
    THEN [ok |-> TRUE,
          tree |-> [key_order |-> Append(tree.key_order, FileName(entry.rel_path)),
                    entries |-> MapInsert(tree.entries, FileName(entry.rel_path), FileNode(entry))]]
    ELSE LET with == WithDirectory(tree, Head(parents))
             dir == IF with.entries[Head(parents)].kind = "tree"
                    THEN with.entries[Head(parents)].tree ELSE EmptyTree
             sub == AddEntryReplacing(dir, Tail(parents), entry)
         IN  [ok |-> sub.ok,
              tree |-> [with EXCEPT !.entries[Head(parents)] = TreeNode(sub.tree)]]

\* Tree::add_entry
RECURSIVE AddEntry(_, _, _)
AddEntry(tree, parents, entry) ==
    IF parents = <<>>
    THEN [ok |-> TRUE,
          tree |-> [key_order |-> Append(tree.key_order, FileName(entry.rel_path)),
                    entries |-> MapInsert(tree.entries, FileName(entry.rel_path), FileNode(entry))]]
    ELSE LET with == WithDirectory(tree, Head(parents))
         IN  IF with.entries[Head(parents)].kind = "tree"
             THEN LET sub == AddEntry(with.entries[Head(parents)].tree, Tail(parents), entry)
                  IN  [ok |-> sub.ok,
                       tree |-> [with EXCEPT !.entries[Head(parents)] = TreeNode(sub.tree)]]
             ELSE [ok |-> FALSE, tree |-> with]

\* entries.sort_unstable_by, were the paths compared component by component
RECURSIVE SortByComponents(_)
SortByComponents(files) ==
    IF files = {} THEN <<>>
    ELSE LET least == CHOOSE f \in files :
                          \A g \in files \ {f} : PathLess(f.rel_path, g.rel_path)
         IN  <<least>> \o SortByComponents(files \ {least})

\* entries.sort_unstable_by the whole path string, bytewise
RECURSIVE SortByPath(_)
SortByPath(files) ==
    IF files = {} THEN <<>>
    ELSE LET least == CHOOSE f \in files :
                          \A g \in files \ {f} : LexLess(f.rel_path, g.rel_path)
         IN  <<least>> \o SortByPath(files \ {least})

\* Tree::build, the loop over the sorted entries
RECURSIVE BuildFrom(_, _)
BuildFrom(root, files) ==
    IF files = <<>> THEN [ok |-> TRUE, tree |-> root]
    ELSE LET one == AddEntry(root, TreeFileAncestors(Head(files)), Head(files))
         IN  IF one.ok THEN BuildFrom(one.tree, Tail(files))
             ELSE [ok |-> FALSE, tree |-> root]

\* Tree::build
TreeBuild(files) == BuildFrom(EmptyTree, SortByPath({files[i] : i \in DOMAIN files}))

\* impl Object for Tree: content, and the oid compute_oid gives the tree
RECURSIVE TreeContent(_)
TreeOid(tree) == Oid(TypeTree, TreeContent(tree))
NodeOid(node) == IF node.kind = "tree" THEN TreeOid(node.tree) ELSE node.file.oid
NodeMode(node) == IF node.kind = "tree" THEN DIRECTORY_MODE ELSE TreeFileMode(node.file)
TreeContent(tree) ==
    Concat([i \in 1..Len(tree.key_order) |->
               Octets(NodeMode(tree.entries[tree.key_order[i]])) \o <<Octet(SPACE)>>
               \o Octets(tree.key_order[i]) \o <<NUL>>
               \o FromHex(NodeOid(tree.entries[tree.key_order[i]]))])

\* the oids a tree's entries name
TreeRefs(tree) == {NodeOid(tree.entries[k]) : k \in DOMAIN tree.entries}

RECURSIVE TraversePreOrder(_)
TraversePreOrder(tree) ==
    <<tree>> \o Concat([i \in 1..Len(tree.key_order) |->
                           IF tree.entries[tree.key_order[i]].kind = "tree"
                           THEN TraversePreOrder(tree.entries[tree.key_order[i]].tree)
                           ELSE <<>>])

\* Tree::traverse: the trees in the order the callback gets them
RECURSIVE Traverse(_)
Traverse(tree) ==
    Concat([i \in 1..Len(tree.key_order) |->
               IF tree.entries[tree.key_order[i]].kind = "tree"
               THEN Traverse(tree.entries[tree.key_order[i]].tree)
               ELSE <<>>]) \o <<tree>>

\* dir.join(name)
JoinPath(dir, name) == IF dir = <<>> THEN name ELSE dir \o <<SLASH>> \o name

\* the result of a traverse: Ok or the callback's Err, and the calls made, oldest
\* first, each with the tree handed over and the directory the tree stands for
Walked(ok, calls) == [ok |-> ok, calls |-> calls]

\* Tree::traverse, were the callback called before the subtrees are walked
RECURSIVE TraverseSelfFirst(_, _, _, _)
TraverseSelfFirst(tree, dir, i, fails) ==
    IF i = 1 /\ dir \in fails THEN Walked(FALSE, <<[dir |-> dir, tree |-> tree]>>)
    ELSE LET own == IF i = 1 THEN <<[dir |-> dir, tree |-> tree]>> ELSE <<>>
         IN  IF i > Len(tree.key_order) THEN Walked(TRUE, own)
             ELSE IF tree.entries[tree.key_order[i]].kind = "tree"
             THEN LET sub == TraverseSelfFirst(tree.entries[tree.key_order[i]].tree,
                                               JoinPath(dir, tree.key_order[i]), 1, fails)
                      rest == TraverseSelfFirst(tree, dir, i + 1, fails)
                  IN  IF sub.ok THEN Walked(rest.ok, own \o sub.calls \o rest.calls)
                      ELSE Walked(FALSE, own \o sub.calls)
             ELSE LET rest == TraverseSelfFirst(tree, dir, i + 1, fails)
                  IN  Walked(rest.ok, own \o rest.calls)

\* Tree::traverse from key i of key_order on, with a callback that returns Err for
\* the trees of the directories in fails: tree.traverse(callback)? for each subtree,
\* then callback(self)?
RECURSIVE TraverseFrom(_, _, _, _)
TraverseFrom(tree, dir, i, fails) ==
    IF i > Len(tree.key_order)
    THEN Walked(dir \notin fails, <<[dir |-> dir, tree |-> tree]>>)
    ELSE IF tree.entries[tree.key_order[i]].kind = "tree"
    THEN LET sub == TraverseFrom(tree.entries[tree.key_order[i]].tree,
                                 JoinPath(dir, tree.key_order[i]), 1, fails)
             rest == TraverseFrom(tree, dir, i + 1, fails)
         IN  IF sub.ok THEN Walked(rest.ok, sub.calls \o rest.calls)
             ELSE Walked(FALSE, sub.calls)
    ELSE TraverseFrom(tree, dir, i + 1, fails)

-----------------------------------------------------------------------------
(* Commits (database/commit.rs) *)

TypeCommit == <<99, 111, 109, 109, 105, 116>>
NEWLINE == 10

None == [some |-> FALSE, value |-> <<>>]
Some(v) == [some |-> TRUE, value |-> v]

\* Vec<String>::join
RECURSIVE Join(_, _)
Join(lines, sep) ==
    IF lines = <<>> THEN <<>>
    ELSE IF Len(lines) = 1 THEN lines[1]
    ELSE lines[1] \o sep \o Join(Tail(lines), sep)

\* Commit::new, were the parent dropped
CommitNewRoot(parent, tree, author, message) ==
    [parent |-> None, tree |-> tree, author |-> author, message |-> message]

\* Commit::new
CommitNew(parent, tree, author, message) ==
    [parent |-> parent, tree |-> tree, author |-> author, message |-> message]

\* impl Object for Commit: content
CommitContent(c) ==
    Join(<<Octets(<<116, 114, 101, 101, 32>>) \o c.tree>>
         \o (IF c.parent.some
             THEN <<Octets(<<112, 97, 114, 101, 110, 116, 32>>) \o c.parent.value>>
             ELSE <<>>)
         \o <<Octets(<<97, 117, 116, 104, 111, 114, 32>>) \o c.author,
              Octets(<<99, 111, 109, 109, 105, 116, 116, 101, 114, 32>>) \o c.author,
              <<>>,
              c.message>>,
         <<Octet(NEWLINE)>>)

CommitOid(c) == Oid(TypeCommit, CommitContent(c))

\* the oids a commit names
CommitRefs(c) == {c.tree} \cup (IF c.parent.some THEN {c.parent.value} ELSE {})

-----------------------------------------------------------------------------
(* Object database (database.rs) *)

\* Database::store: the octets handed to write_object
StoreBytes(type, content) == ToBytes(type, ToBytes(type, content))

\* an object as store gets it: its oid, what is written, and the oids it names
BlobObject(data) ==
    [oid |-> Oid(TypeBlob, data), bytes |-> StoreBytes(TypeBlob, data), refs |-> {}]
TreeObject(tree) ==
    [oid |-> TreeOid(tree), bytes |-> StoreBytes(TypeTree, TreeContent(tree)),
     refs |-> TreeRefs(tree)]
CommitObject(c) ==
    [oid |-> CommitOid(c), bytes |-> StoreBytes(TypeCommit, CommitContent(c)),
     refs |-> CommitRefs(c)]

\* Database::write_object: the object is under its final path after the rename
WriteObject(objects, obj) ==
    MapInsert(objects, obj.oid, [bytes |-> obj.bytes, refs |-> obj.refs])

-----------------------------------------------------------------------------
(* The object directory (database.rs): paths, files, the zlib encoder *)

\* write_object: root.join(&oid[0..2]).join(&oid[2..])
ObjectPath(oid) == [dir |-> SubSeq(oid, 1, 2), name |-> SubSeq(oid, 3, Len(oid))]

\* open_tempfile: dir.join("tmp_obj_" + six characters drawn at random)
TempPrefix == <<116, 109, 112, 95, 111, 98, 106, 95>>
TempPath(dir, random_part) == [dir |-> dir, name |-> Octets(TempPrefix \o random_part)]

\* no file
NoNames == [n \in {} |-> 0]

\* OpenOptions::new().write(true).create_new(true).open(path) by process p where the
\* directory exists: a new empty file under the path, open in p, unless the path
\* names a file already
CreateNew(names, path, p) ==
    [exists |-> path \in DOMAIN names,
     names |-> IF path \in DOMAIN names THEN names
               ELSE MapInsert(names, path, [open |-> p, octets |-> <<>>])]

\* a write through the file p has open: the octets go to that file under whatever
\* path names it now, and nowhere when no path names it any more
FileWrite(names, p, octets) ==
    [n \in DOMAIN names |->
        IF names[n].open = p THEN [names[n] EXCEPT !.octets = @ \o octets] ELSE names[n]]

\* the File is dropped
FileClose(names, p) ==
    [n \in DOMAIN names |->
        IF names[n].open = p THEN [names[n] EXCEPT !.open = 0] ELSE names[n]]

\* fs::rename(from, to): to names the file of from, whatever it named before
Rename(names, from, to) ==
    [n \in (DOMAIN names \ {from}) \cup {to} |-> IF n = to THEN names[from] ELSE names[n]]

\* a zlib stream (RFC 1950): a two-octet header (0x78 0x01 at Compression::fast),
\* the deflate blocks, the end of the last block and the Adler-32 of the data.  A
\* deflate octet <<300>> \o o stands for the input octet o it encodes; the four
\* Adler-32 octets carry no data (Adler-32 is not injective).
ZlibHeader == Octets(<<120, 1>>)
Deflate(d) == [i \in 1..Len(d) |-> <<300>> \o d[i]]
ZlibEnd == <<<<301>>, <<302>>, <<303>>, <<304>>, <<305>>>>
Zlib(d) == ZlibHeader \o Deflate(d) \o ZlibEnd

\* ZlibEncoder::write_all(content): the encoder takes all of content; of the stream
\* so far it has passed the first k octets on to the file and holds the rest
EncoderWriteAll(content, k) ==
    [written |-> SubSeq(ZlibHeader \o Deflate(content), 1, k),
     pending |-> SubSeq(ZlibHeader \o Deflate(content), k + 1, 2 + Len(content))]

\* how much write_all may have passed on: nothing (the encoder's buffer holds
\* 32 KiB), or everything it has compressed
FlushPoints(content) == {0, 2 + Len(content)}

EncoderFinishNothing(pending) == <<>>

\* ZlibEncoder dropped (Drop for zio::Writer calls finish): what it holds, then the
\* end of the stream
EncoderFinish(pending) == pending \o ZlibEnd

-----------------------------------------------------------------------------
(* Lock files (lockfile.rs) and refs (refs.rs) over the files of .git *)

FileNames == {"index", "index.lock", "HEAD", "HEAD.lock"}

\* Lockfile::new: file.with_extension("lock")
LockPath(path) == path \o ".lock"

HoldForUpdateShared(files, path) ==
    [busy |-> FALSE, files |-> [files EXCEPT ![LockPath(path)] = <<>>]]

\* Lockfile::hold_for_update: create_new of the lock path, None when it exists
HoldForUpdate(files, path) ==
    IF files[LockPath(path)] # Absent THEN [busy |-> TRUE, files |-> files]
    ELSE [busy |-> FALSE, files |-> [files EXCEPT ![LockPath(path)] = <<>>]]

\* impl Write for LockfileGuard, for the octets out that the file accepted
GuardWrite(files, path, out) ==
    [files EXCEPT ![LockPath(path)] = files[LockPath(path)] \o out]

GuardCommitByCopy(files, path) == [files EXCEPT ![path] = files[LockPath(path)]]

\* LockfileGuard::commit: fs::rename(lock_path, path)
GuardCommit(files, path) ==
    [files EXCEPT ![path] = files[LockPath(path)], ![LockPath(path)] = Absent]

\* str::trim
IsSpace(o) == IsPlain(o) /\ o[1] \in {9, 10, 11, 12, 13, 32}
RECURSIVE TrimEnd(_)
TrimEnd(s) == IF s # <<>> /\ IsSpace(s[Len(s)]) THEN TrimEnd(SubSeq(s, 1, Len(s) - 1)) ELSE s
RECURSIVE TrimStart(_)
TrimStart(s) == IF s # <<>> /\ IsSpace(s[1]) THEN TrimStart(Tail(s)) ELSE s
\* str::trim, were it to leave the string as it is
TrimNothing(s) == s

Trim(s) == TrimStart(TrimEnd(s))

\* Refs::read_head
ReadHead(files) == IF files["HEAD"] = Absent THEN None ELSE Some(Trim(files["HEAD"]))

\* Refs::update_head: the two write calls on the guard, their counts dropped
HeadSecond(second) == [ok |-> second.ok, out |-> second.w.out]
HeadFirst(first) ==
    IF first.ok THEN HeadSecond(SinkWrite(first.w, <<Octet(NEWLINE)>>))
    ELSE [ok |-> FALSE, out |-> first.w.out]
EmitHead(oid, room) == HeadFirst(SinkWrite(NewWriter(room), oid))

-----------------------------------------------------------------------------
(* Inputs of the model: workspace paths, file contents, stat results *)

PathA == <<97>>
PathB == <<98>>
PathAB == <<97, 47, 98>>
PathADotB == <<97, 46, 98>>
PathLen9 == <<98, 47, 99, 100, 101, 102, 103, 104, 105>>
PathLen10 == <<97, 47, 98, 47, 99, 100, 101, 102, 103, 104>>

IdxPaths == {PathA, PathB, PathAB, PathADotB, PathLen9, PathLen10}

ContentX == Octets(<<120>>)
ContentHi == Octets(<<104, 105, 10>>)

Big32 == [hi |-> 65535, lo |-> 65535]
Wide(ext, hi, lo) == [ext |-> ext, hi |-> hi, lo |-> lo]

\* a regular file, small stat values
MetaPlain ==
    [ctime |-> Wide(0, 0, 1), ctime_nsec |-> Wide(0, 0, 0),
     mtime |-> Wide(0, 0, 2), mtime_nsec |-> Wide(0, 0, 258),
     dev |-> Wide(0, 0, 3), ino |-> Wide(0, 0, 4), mode |-> U32(33188),
     uid |-> U32(0), gid |-> U32(5), size |-> Wide(0, 0, 1)]
\* an executable file (0o100755) whose stat values fill or exceed 32 bits
MetaBig ==
    [ctime |-> Wide(0, 65535, 65535), ctime_nsec |-> Wide(0, 15258, 51711),
     mtime |-> Wide(0, 32768, 0), mtime_nsec |-> Wide(0, 0, 65535),
     dev |-> Wide(1, 0, 64768), ino |-> Wide(7, 65535, 65535), mode |-> U32(33261),
     uid |-> Big32, gid |-> [hi |-> 1, lo |-> 0], size |-> Wide(1, 256, 255)]
\* a file whose change time is past the u32 range
MetaLate == [MetaPlain EXCEPT !.ctime = Wide(1, 0, 0)]

\* a file as the add command meets it: its content and what WorkspacePath::stat returns
\* (ok = FALSE: stat returns Err)
File(data, ok, md) == [data |-> data, stat |-> [ok |-> ok, md |-> md]]
IdxFiles == {File(ContentX, TRUE, MetaPlain), File(ContentHi, TRUE, MetaBig),
             File(ContentX, TRUE, MetaLate), File(ContentX, FALSE, MetaPlain)}

-----------------------------------------------------------------------------
(* Inputs of the commands: the workspace, the device, the commit's environment *)

PathZ == <<122>>

\* the regular files of the workspace, by relative path
WorkspacePaths == {PathB, PathAB, PathADotB}

\* what WorkspacePath::read and WorkspacePath::stat give for a file of the workspace:
\* b and a/b can be read, a.b cannot
WorkspaceFile(path) ==
    IF path = PathB
    THEN [data |-> ContentX, readable |-> TRUE, stat |-> [ok |-> TRUE, md |-> MetaPlain]]
    ELSE IF path = PathAB
    THEN [data |-> ContentHi, readable |-> TRUE, stat |-> [ok |-> TRUE, md |-> MetaBig]]
    ELSE [data |-> ContentX, readable |-> FALSE, stat |-> [ok |-> TRUE, md |-> MetaPlain]]

\* Workspace::list_files: a file gives itself, a directory the files below it, anything
\* else is the error "pathspec did not match any files"
ListFiles(spec) ==
    IF spec \in WorkspacePaths THEN [ok |-> TRUE, files |-> <<spec>>]
    ELSE IF \E f \in WorkspacePaths : IsDirPrefix(spec, f)
    THEN [ok |-> TRUE, files |-> SortedKeys({f \in WorkspacePaths : IsDirPrefix(spec, f)})]
    ELSE [ok |-> FALSE, files |-> <<>>]

\* add::execute: list_files of every argument, collected into one Result
RECURSIVE ListAll(_)
ListAll(specs) ==
    IF specs = <<>> THEN [ok |-> TRUE, files |-> <<>>]
    ELSE [ok |-> ListFiles(Head(specs)).ok /\ ListAll(Tail(specs)).ok,
          files |-> ListFiles(Head(specs)).files \o ListAll(Tail(specs)).files]

\* the argument lists of the add commands run
AddArgs == {<<>>, <<PathB>>, <<PathA>>, <<PathB, PathZ>>, <<PathADotB>>}

\* room left on the device when a lock file is written
SmallRoom == 20
DiskRoom == 80
Rooms == {Unlimited, Limited(SmallRoom), Limited(DiskRoom)}

\* "A <e> 1 +0000": Author as Display formats it
AuthorLine == Octets(<<65, 32, 60, 101, 62, 32, 49, 32, 43, 48, 48, 48, 48>>)

\* what the commit command reads from stdin
Messages == {<<>>, Octets(<<109>>)}

-----------------------------------------------------------------------------
(* State of the repository and of the processes *)

Procs == {1, 2}

NoObjects == [o \in {} |-> 0]

NoLocals ==
    [args |-> <<>>, entries |-> NoEntries, changed |-> FALSE, files |-> <<>>,
     trees |-> <<>>, root |-> <<>>, commit |-> CommitNew(None, <<>>, <<>>, <<>>),
     written |-> <<>>]

\* git init: no index, no HEAD, no objects; no command runs
ProcInit ==
    /\ fs = [f \in FileNames |-> Absent]
    /\ db = NoObjects
    /\ pc = [p \in Procs |-> "idle"]
    /\ loc = [p \in Procs |-> NoLocals]
    /\ outcome = [p \in Procs |-> "none"]
    /\ ncmds = 0

\* a store call that has not begun
NoStore ==
    [pc |-> "idle", type |-> <<>>, payload |-> <<>>, oid |-> <<>>, bytes |-> <<>>,
     tmp |-> TempPath(<<>>, <<>>), pending |-> <<>>, result |-> "none"]

\* git init: .git/objects is empty; no store runs
StoreStart ==
    /\ odirs = {}
    /\ onames = NoNames
    /\ ostore = [p \in Procs |-> NoStore]
    /\ olog = {}
    /\ oclash = FALSE
    /\ ofault = FALSE
    /\ nstores = 0

\* verify_checksum has not been called
NoVerdict == [called |-> FALSE, ok |-> FALSE, equal |-> FALSE]

\* a ChecksummedFile::new(inner, Sha1::new()) over an empty sink and one over src
SumOpen(mode, src) ==
    /\ cmode = mode
    /\ cw = NewWriter(Unlimited)
    /\ cwst = "open"
    /\ cr = NewReader(src)
    /\ crgot = <<>>
    /\ crver = NoVerdict
    /\ ncalls = 0

SumStart == SumOpen("off", <<>>)

\* Index::load has not been called
NotLoaded == [done |-> FALSE, ok |-> FALSE, entries |-> NoEntries]
NoDamage == [kind |-> "none", at |-> 0]

\* the index file as write_updates leaves it for entries, on a device with room
FileWritten(entries) ==
    /\ fentries = entries
    /\ fbytes = EmitIndex(entries, Unlimited).out
    /\ fdamage = NoDamage
    /\ fload = NotLoaded

FileStart == FileWritten(NoEntries)

\* Tree::build has not been called
NotBuilt == [done |-> FALSE, ok |-> FALSE, tree |-> EmptyTree]

\* traverse has not been called
NotWalked == [done |-> FALSE, ok |-> FALSE, calls |-> <<>>, fails |-> {}]

\* the caller holds the records files, the call is still to come
TreeGiven(files) ==
    /\ tin = files
    /\ tout = NotBuilt
    /\ twalk = NotWalked

TreeStart == TreeGiven(<<>>)

-----------------------------------------------------------------------------
(* The index under a single owner: add, emit, parse (SpecIdx) *)

NoAdd == [path |-> <<>>, oid |-> <<>>, md |-> MetaPlain]

IdxStart ==
    /\ ist = "mem"
    /\ ientries = NoEntries
    /\ ichanged = FALSE
    /\ idisk = Absent
    /\ iload = [ok |-> TRUE, entries |-> NoEntries, pos |-> 0]
    /\ isaved = NoEntries
    /\ ilog = <<>>
    /\ ilast = NoAdd
    /\ irepeat = FALSE

IdxInit == IdxStart /\ ProcInit /\ StoreStart /\ SumStart /\ FileStart /\ TreeStart

\* index.add(file, oid) for a blob of the workspace
IdxAdd(path, data, st) ==
    /\ ist \in {"mem", "loaded"}
    /\ Len(ilog) < MaxAdds
    /\ UNCHANGED notIdxVars
    /\ IF ~ st.ok
       THEN \* file.stat()? returns the error; the index is as before
            UNCHANGED idxVars
       ELSE IF EntryNewPanics(st.md)
       THEN /\ ist' = "panicked"
            /\ UNCHANGED <<ientries, ichanged, idisk, iload, isaved, ilog, ilast, irepeat>>
       ELSE /\ ientries' = IndexAdd(ientries, path, Oid(TypeBlob, data), st.md)
            /\ ichanged' = TRUE
            /\ ist' = "mem"
            /\ ilog' = Append(ilog, path)
            /\ ilast' = [path |-> path, oid |-> Oid(TypeBlob, data), md |-> st.md]
            /\ irepeat' = (ilast' = ilast)
            /\ UNCHANGED <<idisk, iload, isaved>>

\* write_updates into a sink that takes everything, the result kept as the index file
IdxSave ==
    /\ ist \in {"mem", "loaded"}
    /\ ist' = "saved"
    /\ ilast' = NoAdd
    /\ irepeat' = FALSE
    /\ IF ichanged
       THEN /\ idisk' = EmitIndex(ientries, Unlimited).out
            /\ isaved' = ientries
       ELSE UNCHANGED <<idisk, isaved>>
    /\ UNCHANGED <<ientries, ichanged, iload, ilog>>
    /\ UNCHANGED notIdxVars

\* Index::load with the outcome of load_entries
IdxLoaded(res) ==
    /\ iload' = res
    /\ ist' = IF res.ok THEN "loaded" ELSE "failed"
    /\ ientries' = res.entries
    /\ ichanged' = FALSE
    /\ ilast' = NoAdd
    /\ irepeat' = FALSE
    /\ UNCHANGED <<idisk, isaved, ilog>>
    /\ UNCHANGED notIdxVars

\* Index::load of the index file
IdxLoad ==
    /\ ist = "saved"
    /\ IdxLoaded(IndexLoad(idisk))

IdxNext ==
    \/ \E path \in IdxPaths, f \in IdxFiles : IdxAdd(path, f.data, f.stat)
    \/ IdxSave
    \/ IdxLoad

SpecIdx == IdxInit /\ [][IdxNext]_vars

-----------------------------------------------------------------------------
(* The index loaded from a file that may fail to open (SpecOpen) *)

OpenPaths == {PathA, PathB, PathZ}

\* index.add of a plain file
OpenAdd(path) == IdxAdd(path, ContentX, [ok |-> TRUE, md |-> MetaPlain])

\* Index::load when File::open succeeds (or finds no file) and when it fails
OpenLoad(openable) ==
    /\ ist = "saved"
    /\ IdxLoaded(IndexLoadOpen(FileOpen(idisk, openable), idisk))

OpenNext ==
    \/ \E path \in OpenPaths : OpenAdd(path)
    \/ IdxSave
    \/ \E openable \in BOOLEAN : OpenLoad(openable)

SpecOpen == IdxInit /\ [][OpenNext]_vars

-----------------------------------------------------------------------------
(* Entries made by add from files of every permission and path length (SpecEntry) *)

\* a path of n letters "a", one component
PathOfLen(n) == Repeat(97, n)

\* the nine permission bits of a file
Permissions == 0..511

\* what stat returns for a regular file with permission bits perm
StatOf(perm) ==
    [ok |-> TRUE,
     md |-> [MetaPlain EXCEPT !.mode = U32(REGULAR_MODE - (REGULAR_MODE % 512) + perm)]]

\* the file staged first: "a", with every permission
FirstFiles == {[path |-> PathOfLen(1), stat |-> StatOf(perm)] : perm \in Permissions}

\* the files staged at any time: every path length, as rw-r--r-- and as rwxr-xr-x
LaterFiles ==
    {[path |-> PathOfLen(n), stat |-> StatOf(perm)] :
        n \in 1..MaxPathLen, perm \in {REGULAR_MODE % 512, EXECUTABLE_MODE % 512}}

\* index.add(file, oid, metadata) on the index in memory
EntryAdd(f) ==
    /\ Len(ilog) < MaxStaged
    /\ IdxAdd(f.path, ContentX, f.stat)

EntryNext ==
    \/ \E f \in FirstFiles : ilog = <<>> /\ EntryAdd(f)
    \/ \E f \in LaterFiles : EntryAdd(f)
    \/ IdxSave
    \/ IdxLoad

SpecEntry == IdxInit /\ [][EntryNext]_vars

-----------------------------------------------------------------------------
(* The add and commit commands, one action per step that the file system sees (Spec) *)

\* the command returns: its locals are dropped, a lock guard among them included
Finish(p, result) ==
    /\ pc' = [pc EXCEPT ![p] = "idle"]
    /\ loc' = [loc EXCEPT ![p] = NoLocals]
    /\ outcome' = [outcome EXCEPT ![p] = result]

\* the command goes on to its next step
Goto(p, step, locals) ==
    /\ pc' = [pc EXCEPT ![p] = step]
    /\ loc' = [loc EXCEPT ![p] = locals]
    /\ UNCHANGED outcome

\* main: jit add <args>
StartAdd(p, args) ==
    /\ pc[p] = "idle"
    /\ ncmds < MaxCmds
    /\ ncmds' = ncmds + 1
    /\ pc' = [pc EXCEPT ![p] = "add_lock"]
    /\ loc' = [loc EXCEPT ![p] = [NoLocals EXCEPT !.args = args]]
    /\ outcome' = [outcome EXCEPT ![p] = "none"]
    /\ UNCHANGED <<fs, db, notProcVars>>

\* main: jit commit
StartCommit(p) ==
    /\ pc[p] = "idle"
    /\ ncmds < MaxCmds
    /\ ncmds' = ncmds + 1
    /\ pc' = [pc EXCEPT ![p] = "commit_load"]
    /\ loc' = [loc EXCEPT ![p] = NoLocals]
    /\ outcome' = [outcome EXCEPT ![p] = "none"]
    /\ UNCHANGED <<fs, db, notProcVars>>

\* Index::load_for_update: hold_for_update of the index, "Index file is locked" on None
AddLocked(p, held) ==
    /\ fs' = held.files
    /\ IF held.busy THEN Finish(p, "busy") ELSE Goto(p, "add_load", loc[p])

AddLock(p) ==
    /\ pc[p] = "add_lock"
    /\ AddLocked(p, HoldForUpdate(fs, "index"))
    /\ UNCHANGED <<db, ncmds, notProcVars>>

\* Index::load_for_update after the lock, then add::execute up to the loop
AddLoaded(p, index, listed) ==
    IF index.ok /\ listed.ok
    THEN Goto(p, "add_file", [loc[p] EXCEPT !.entries = index.entries, !.files = listed.files])
    ELSE Finish(p, "error")

AddLoad(p) ==
    /\ pc[p] = "add_load"
    /\ AddLoaded(p, IndexLoad(fs["index"]), ListAll(loc[p].args))
    /\ UNCHANGED <<fs, db, ncmds, notProcVars>>

\* add::execute, the loop body after file.read: database.store, index.add
AddFileStored(p, path, file, blob) ==
    /\ db' = WriteObject(db, blob)
    /\ IF file.stat.ok /\ ~ EntryNewPanics(file.stat.md)
       THEN Goto(p, "add_file",
                 [loc[p] EXCEPT !.entries = IndexAdd(@, path, blob.oid, file.stat.md),
                                !.changed = TRUE,
                                !.files = Tail(@)])
       ELSE Finish(p, "error")

AddFileRead(p, path, file, stored) ==
    IF file.readable /\ stored
    THEN AddFileStored(p, path, file, BlobObject(file.data))
    ELSE UNCHANGED db /\ Finish(p, "error")

\* add::execute, one turn of the loop; the store succeeds or fails
AddFile(p) ==
    /\ pc[p] = "add_file"
    /\ loc[p].files # <<>>
    /\ \E stored \in BOOLEAN :
           AddFileRead(p, Head(loc[p].files), WorkspaceFile(Head(loc[p].files)), stored)
    /\ UNCHANGED <<fs, ncmds, notProcVars>>

\* Index::write_updates up to write_hash
AddWritten(p, emitted) ==
    /\ fs' = GuardWrite(fs, "index", emitted.out)
    /\ IF emitted.ok
       THEN Goto(p, "add_commit", [loc[p] EXCEPT !.written = @ \o emitted.out])
       ELSE Finish(p, "error")

AddWrite(p) ==
    /\ pc[p] = "add_file"
    /\ loc[p].files = <<>>
    /\ IF ~ loc[p].changed
       THEN UNCHANGED fs /\ Finish(p, "ok")
       ELSE \E room \in Rooms : AddWritten(p, EmitIndex(loc[p].entries, room))
    /\ UNCHANGED <<db, ncmds, notProcVars>>

\* Index::write_updates: file.into_inner().commit(); the rename succeeds or fails
AddCommit(p) ==
    /\ pc[p] = "add_commit"
    /\ \E renamed \in BOOLEAN :
           IF renamed THEN fs' = GuardCommit(fs, "index") /\ Finish(p, "ok")
           ELSE UNCHANGED fs /\ Finish(p, "error")
    /\ UNCHANGED <<db, ncmds, notProcVars>>

\* commit::execute: the TreeFile of every index entry, in iter() order
IndexTreeFiles(entries) ==
    [i \in 1..Len(IndexIter(entries)) |->
        TreeFileNew(IndexIter(entries)[i].path, ToHex(IndexIter(entries)[i].oid),
                    IndexIter(entries)[i].mode)]

\* commit::execute: Index::load, Tree::build
CommitBuilt(p, index, built) ==
    IF index.ok /\ built.ok
    THEN Goto(p, "commit_trees",
              [loc[p] EXCEPT !.trees = Traverse(built.tree), !.root = TreeOid(built.tree)])
    ELSE Finish(p, "error")

CommitLoaded(p, index) == CommitBuilt(p, index, TreeBuild(IndexTreeFiles(index.entries)))

CommitLoad(p) ==
    /\ pc[p] = "commit_load"
    /\ CommitLoaded(p, IndexLoad(fs["index"]))
    /\ UNCHANGED <<fs, db, ncmds, notProcVars>>

\* root.traverse(database.store): the next tree; the store succeeds or fails
CommitStoreTree(p) ==
    /\ pc[p] = "commit_trees"
    /\ loc[p].trees # <<>>
    /\ \E stored \in BOOLEAN :
           IF stored
           THEN /\ db' = WriteObject(db, TreeObject(Head(loc[p].trees)))
                /\ Goto(p, "commit_trees", [loc[p] EXCEPT !.trees = Tail(@)])
           ELSE UNCHANGED db /\ Finish(p, "error")
    /\ UNCHANGED <<fs, ncmds, notProcVars>>

\* commit::execute: read_head, the author from the environment (set or not), the
\* message from stdin, Commit::new
CommitReadHead(p) ==
    /\ pc[p] = "commit_trees"
    /\ loc[p].trees = <<>>
    /\ \E env \in BOOLEAN, message \in Messages :
           IF env
           THEN Goto(p, "commit_store",
                     [loc[p] EXCEPT !.commit = CommitNew(ReadHead(fs), loc[p].root,
                                                         AuthorLine, message)])
           ELSE Finish(p, "error")
    /\ UNCHANGED <<fs, db, ncmds, notProcVars>>

\* commit::execute: database.store(commit), then "Empty message" for a message
\* without a first line
CommitStore(p) ==
    /\ pc[p] = "commit_store"
    /\ \E stored \in BOOLEAN :
           IF stored
           THEN /\ db' = WriteObject(db, CommitObject(loc[p].commit))
                /\ IF loc[p].commit.message = <<>> THEN Finish(p, "error")
                   ELSE Goto(p, "head_lock", loc[p])
           ELSE UNCHANGED db /\ Finish(p, "error")
    /\ UNCHANGED <<fs, ncmds, notProcVars>>

\* Refs::update_head: hold_for_update of HEAD, "Could not acquire lock" on None
HeadLocked(p, held) ==
    /\ fs' = held.files
    /\ IF held.busy THEN Finish(p, "busy") ELSE Goto(p, "head_write", loc[p])

HeadLock(p) ==
    /\ pc[p] = "head_lock"
    /\ HeadLocked(p, HoldForUpdate(fs, "HEAD"))
    /\ UNCHANGED <<db, ncmds, notProcVars>>

\* Refs::update_head: head.write(oid), head.write("\n")
HeadWritten(p, emitted) ==
    /\ fs' = GuardWrite(fs, "HEAD", emitted.out)
    /\ IF emitted.ok
       THEN Goto(p, "head_commit", [loc[p] EXCEPT !.written = @ \o emitted.out])
       ELSE Finish(p, "error")

HeadWrite(p) ==
    /\ pc[p] = "head_write"
    /\ \E room \in Rooms : HeadWritten(p, EmitHead(CommitOid(loc[p].commit), room))
    /\ UNCHANGED <<db, ncmds, notProcVars>>

\* Refs::update_head: head.commit(); the rename succeeds or fails
HeadCommit(p) ==
    /\ pc[p] = "head_commit"
    /\ \E renamed \in BOOLEAN :
           IF renamed THEN fs' = GuardCommit(fs, "HEAD") /\ Finish(p, "ok")
           ELSE UNCHANGED fs /\ Finish(p, "error")
    /\ UNCHANGED <<db, ncmds, notProcVars>>

Init == ProcInit /\ IdxStart /\ StoreStart /\ SumStart /\ FileStart /\ TreeStart

Next ==
    \E p \in Procs :
        \/ \E args \in AddArgs : StartAdd(p, args)
        \/ StartCommit(p)
        \/ AddLock(p)
        \/ AddLoad(p)
        \/ AddFile(p)
        \/ AddWrite(p)
        \/ AddCommit(p)
        \/ CommitLoad(p)
        \/ CommitStoreTree(p)
        \/ CommitReadHead(p)
        \/ CommitStore(p)
        \/ HeadLock(p)
        \/ HeadWrite(p)
        \/ HeadCommit(p)

Spec == Init /\ [][Next]_vars

\* the commands run one after another: a command starts when no other command runs
OneAtATime == \A p \in Procs : (pc[p] = "idle" /\ pc'[p] # "idle") => \A q \in Procs : pc[q] = "idle"

SeqNext == Next /\ OneAtATime

SpecSeq == Init /\ [][SeqNext]_vars

-----------------------------------------------------------------------------
(* Database::store by two processes, one action per system call (SpecDb) *)

\* the objects handed to store: type and payload, and the object the command built
StoreInput(type, payload, obj) == [type |-> type, payload |-> payload, obj |-> obj]
FirstCommit == CommitNew(None, TreeOid(EmptyTree), AuthorLine, Octets(<<109>>))
StoreInputs ==
    {StoreInput(TypeBlob, <<>>, BlobObject(<<>>)),
     StoreInput(TypeTree, TreeContent(EmptyTree), TreeObject(EmptyTree)),
     StoreInput(TypeCommit, CommitContent(FirstCommit), CommitObject(FirstCommit))}

\* what thread_rng may give open_tempfile: "abcdef", "qZ7x0K"
RandomParts == {<<97, 98, 99, 100, 101, 102>>, <<113, 90, 55, 120, 48, 75>>}

\* store returns: the encoder, the file and the paths are dropped
StoreReturns(p, result, names) ==
    /\ ostore' = [ostore EXCEPT ![p] = [NoStore EXCEPT !.result = result]]
    /\ onames' = FileClose(names, p)

\* store returns the error of a system call that failed
StoreFails(p) ==
    /\ StoreReturns(p, "error", onames)
    /\ ofault' = TRUE

\* how a system call may end: well, or with an error; the model follows one failed
\* call per run
Oks == IF ofault THEN {TRUE} ELSE BOOLEAN

\* Database::store(object): the oid and the serialized octets, then write_object
DbStore(p, in) ==
    /\ ostore[p].pc = "idle"
    /\ nstores < MaxStores
    /\ nstores' = nstores + 1
    /\ ostore' = [ostore EXCEPT ![p] =
                     [NoStore EXCEPT !.pc = "open", !.type = in.type, !.payload = in.payload,
                                     !.oid = in.obj.oid, !.bytes = in.obj.bytes]]
    /\ UNCHANGED <<odirs, onames, olog, oclash, ofault, notStoreVars>>

\* open_tempfile: create_new of the temp path, after create_dir_all when the first
\* open found no directory; a path that exists is the error AlreadyExists
DbOpened(p, path, made) ==
    /\ odirs' = odirs \cup {path.dir}
    /\ oclash' = (oclash \/ made.exists)
    /\ IF made.exists THEN StoreReturns(p, "exists", onames)
       ELSE /\ onames' = made.names
            /\ ostore' = [ostore EXCEPT ![p].pc = "write", ![p].tmp = path]
    /\ UNCHANGED ofault

DbOpenAt(p, path, ok) ==
    IF ok THEN DbOpened(p, path, CreateNew(onames, path, p))
    ELSE StoreFails(p) /\ UNCHANGED <<odirs, oclash>>

DbOpenTempfile(p) ==
    /\ ostore[p].pc = "open"
    /\ \E random_part \in RandomParts, ok \in Oks :
           DbOpenAt(p, TempPath(ObjectPath(ostore[p].oid).dir, random_part), ok)
    /\ UNCHANGED <<olog, nstores, notStoreVars>>

\* write_object: encoder.write_all(content)
DbWritten(p, enc, ok) ==
    IF ok
    THEN /\ onames' = FileWrite(onames, p, enc.written)
         /\ ostore' = [ostore EXCEPT ![p].pc = "rename", ![p].pending = enc.pending]
         /\ UNCHANGED ofault
    ELSE StoreFails(p)

DbWriteAll(p) ==
    /\ ostore[p].pc = "write"
    /\ \E k \in FlushPoints(ostore[p].bytes), ok \in Oks :
           DbWritten(p, EncoderWriteAll(ostore[p].bytes, k), ok)
    /\ UNCHANGED <<odirs, olog, oclash, nstores, notStoreVars>>

\* one rename as olog keeps it; concurrent: another process was inside store with the
\* same oid when it happened
Renamed(p, st, concurrent) ==
    [proc |-> p, type |-> st.type, payload |-> st.payload, oid |-> st.oid,
     bytes |-> st.bytes, path |-> ObjectPath(st.oid), concurrent |-> concurrent]

\* write_object: rename(tempfile_name, object_path); the encoder is still alive
DbRename(p) ==
    /\ ostore[p].pc = "rename"
    /\ \E ok \in Oks :
           IF ok
           THEN /\ onames' = Rename(onames, ostore[p].tmp, ObjectPath(ostore[p].oid))
                /\ olog' = olog \cup
                       {Renamed(p, ostore[p],
                                \E q \in Procs \ {p} : /\ ostore[q].pc # "idle"
                                                       /\ ostore[q].oid = ostore[p].oid)}
                /\ ostore' = [ostore EXCEPT ![p].pc = "drop"]
                /\ UNCHANGED ofault
           ELSE StoreFails(p) /\ UNCHANGED olog
    /\ UNCHANGED <<odirs, oclash, nstores, notStoreVars>>

\* write_object returns Ok(()): the encoder is dropped and finishes the stream into
\* the file it has open; an error of that write is dropped with it
DbDrop(p) ==
    /\ ostore[p].pc = "drop"
    /\ \E ok \in Oks :
           IF ok
           THEN /\ StoreReturns(p, "ok", FileWrite(onames, p, EncoderFinish(ostore[p].pending)))
                /\ UNCHANGED ofault
           ELSE /\ StoreReturns(p, "ok", onames)
                /\ ofault' = TRUE
    /\ UNCHANGED <<odirs, olog, oclash, nstores, notStoreVars>>

DbNext ==
    \E p \in Procs :
        \/ \E in \in StoreInputs : DbStore(p, in)
        \/ DbOpenTempfile(p)
        \/ DbWriteAll(p)
        \/ DbRename(p)
        \/ DbDrop(p)

SpecDb == Init /\ [][DbNext]_vars

-----------------------------------------------------------------------------
(* ChecksummedFile over any sink and any source (SpecSum) *)

\* the buffers handed to write: "a", "bc"
SumBufs == {Octets(<<97>>), Octets(<<98, 99>>)}

\* a file as a correct writer leaves it: the data, then the SHA-1 of the data
Trailed(d) == d \o Sha1(d)

\* the sources read: "abc" with its digest, "abc" with the digest of "ab\0c", "ab" alone
SumSources ==
    {Trailed(Octets(<<97, 98, 99>>)),
     Octets(<<97, 98, 99>>) \o Sha1(Octets(<<97, 98, 0, 99>>)),
     Octets(<<97, 98>>)}

\* the sizes of the zeroed buffers handed to read and read_exact
SumSizes == {1, 3}

SumInit ==
    /\ ProcInit /\ IdxStart /\ StoreStart /\ FileStart /\ TreeStart
    /\ \E mode \in {"writer", "reader"}, src \in SumSources : SumOpen(mode, src)

\* file.write(buf) with the outcome of the call
SumWrote(one) ==
    /\ cw' = one.w
    /\ ncalls' = ncalls + 1
    /\ UNCHANGED <<cmode, cwst, cr, crgot, crver, notSumVars>>

\* file.write(buf), the sink taking k octets of buf
SumWrite(buf, k) ==
    /\ cmode = "writer" /\ cwst = "open" /\ ncalls < MaxCalls
    /\ SumWrote(ChecksummedWriteChunk(cw, buf, k))

\* file.write_all(buf), the sink taking at most chunk octets per call
SumWriteAll(buf, chunk) ==
    /\ cmode = "writer" /\ cwst = "open" /\ ncalls < MaxCalls
    /\ SumWrote(ChecksummedWriteAll(cw, buf, chunk))

\* file.write_hash() with the outcome of its one write call
SumHashed(one) ==
    /\ cw' = one.w
    /\ cwst' = IF one.ok THEN "hashed" ELSE "failed"
    /\ UNCHANGED <<cmode, cr, crgot, crver, ncalls, notSumVars>>

\* file.write_hash(), the sink taking k octets
SumWriteHash(k) ==
    /\ cmode = "writer" /\ cwst = "open"
    /\ SumHashed(WriteHash([cw EXCEPT !.room = Limited(k)]))

\* file.read(buf) with the outcome of the call
SumReadDone(one) ==
    /\ cr' = one.r
    /\ crgot' = crgot \o SubSeq(one.buf, 1, one.got)
    /\ ncalls' = ncalls + 1
    /\ UNCHANGED <<cmode, cw, cwst, crver, notSumVars>>

\* file.read(buf) into n zeroed octets, the source delivering k of them
SumRead(n, k) ==
    /\ cmode = "reader" /\ ~ crver.called /\ ncalls < MaxCalls
    /\ k <= InnerRead(cr, n)
    /\ k > 0 \/ InnerRead(cr, n) = 0
    /\ SumReadDone(ChecksummedReadShort(cr, Repeat(NUL, n), k))

\* file.verify_checksum()
SumVerify ==
    /\ cmode = "reader" /\ ~ crver.called
    /\ crver' = [called |-> TRUE, ok |-> VerifyChecksum(cr).ok, equal |-> VerifyChecksum(cr).equal]
    /\ UNCHANGED <<cmode, cw, cwst, cr, crgot, ncalls, notSumVars>>

SumNext ==
    \/ \E buf \in SumBufs : \E k \in 0..Len(buf) : SumWrite(buf, k)
    \/ \E buf \in SumBufs : \E chunk \in 1..Len(buf) : SumWriteAll(buf, chunk)
    \/ \E k \in 0..20 : SumWriteHash(k)
    \/ \E n \in SumSizes : \E k \in 0..n : SumRead(n, k)
    \/ SumVerify

SpecSum == SumInit /\ [][SumNext]_vars

-----------------------------------------------------------------------------
(* Index::load of an index file that was damaged after it was written (SpecFile) *)

\* the indexes written: empty; b; a/b and b
FileIndexes ==
    {NoEntries,
     IndexAdd(NoEntries, PathB, Oid(TypeBlob, ContentX), MetaPlain),
     IndexAdd(IndexAdd(NoEntries, PathAB, Oid(TypeBlob, ContentHi), MetaBig),
              PathB, Oid(TypeBlob, ContentX), MetaPlain)}

\* the values an octet of the file is changed to
AlteredOctets == {Octet(0), Octet(1), Octet(67)}

\* the octets put after the trailer: one NUL, eight NULs (an empty padded block), "x"
ExtraOctets == {<<NUL>>, Repeat(NUL, ENTRY_BLOCK), Octets(<<120>>)}

FileInit ==
    /\ ProcInit /\ IdxStart /\ StoreStart /\ SumStart /\ TreeStart
    /\ \E entries \in FileIndexes : FileWritten(entries)

\* octet i of the file is overwritten with another value
FileAlter(i, o) ==
    /\ fdamage = NoDamage /\ ~ fload.done
    /\ i \in 1..Len(fbytes)
    /\ fbytes[i] # o
    /\ fbytes' = [fbytes EXCEPT ![i] = o]
    /\ fdamage' = [kind |-> "altered", at |-> i]
    /\ UNCHANGED <<fentries, fload, notFileVars>>

\* octets are appended to the file
FileAppend(extra) ==
    /\ fdamage = NoDamage /\ ~ fload.done
    /\ fbytes' = fbytes \o extra
    /\ fdamage' = [kind |-> "appended", at |-> Len(fbytes) + 1]
    /\ UNCHANGED <<fentries, fload, notFileVars>>

\* Index::load(path) with the outcome of load_entries
FileLoaded(res) ==
    /\ fload' = [done |-> TRUE, ok |-> res.ok, entries |-> res.entries]
    /\ UNCHANGED <<fentries, fbytes, fdamage, notFileVars>>

FileLoad ==
    /\ ~ fload.done
    /\ FileLoaded(IndexLoad(fbytes))

FileNext ==
    \/ \E i \in 1..Len(fbytes), o \in AlteredOctets : FileAlter(i, o)
    \/ \E extra \in ExtraOctets : FileAppend(extra)
    \/ FileLoad

SpecFile == FileInit /\ [][FileNext]_vars

-----------------------------------------------------------------------------
(* Tree::build called on a list of records (SpecTree) *)

PathABC == <<97, 47, 98, 47, 99>>
PathAD == <<97, 47, 100>>

\* the paths of the records: "a", "b", "a/b", "a.b", "a/b/c", "a/d"
TreePaths == {PathA, PathB, PathAB, PathADotB, PathABC, PathAD}

\* one TreeFile per path, all naming the empty blob
TreeFiles == {TreeFileNew(p, Oid(TypeBlob, <<>>), U32(REGULAR_MODE)) : p \in TreePaths}

\* the lists of at most MaxFiles records with distinct paths, in every order
TreeInputs ==
    UNION {{files \in [1..n -> TreeFiles] :
               \A i, j \in 1..n : i # j => files[i].rel_path # files[j].rel_path} :
           n \in 0..MaxFiles}

TreeInit ==
    /\ ProcInit /\ IdxStart /\ StoreStart /\ SumStart /\ FileStart
    /\ \E files \in TreeInputs : TreeGiven(files)

\* Tree::build returns res to the caller: Ok(root), or the Err of add_entry
TreeBuilt(res) ==
    /\ ~ tout.done
    /\ tout' = [done |-> TRUE, ok |-> res.ok,
                tree |-> IF res.ok THEN res.tree ELSE EmptyTree]
    /\ UNCHANGED <<tin, twalk, notTreeVars>>

\* Tree::build(entries)
TreeBuildCall == TreeBuilt(TreeBuild(tin))

\* the directories a callback may return Err for: none, or one of "", "a", "a/b"
CallbackFails == {{}, {<<>>}, {PathA}, {PathAB}}

\* traverse returns res to the caller
TreeWalked(res, fails) ==
    /\ tout.done /\ tout.ok
    /\ ~ twalk.done
    /\ twalk' = [done |-> TRUE, ok |-> res.ok, fails |-> fails,
                 calls |-> [i \in DOMAIN res.calls |-> res.calls[i].dir]]
    /\ UNCHANGED <<tin, tout, notTreeVars>>

\* root.traverse(callback)
TreeTraverse(fails) == TreeWalked(TraverseFrom(tout.tree, <<>>, 1, fails), fails)

TreeNext ==
    \/ TreeBuildCall
    \/ \E fails \in CallbackFails : TreeTraverse(fails)

SpecTree == TreeInit /\ [][TreeNext]_vars

-----------------------------------------------------------------------------
(* Claims about the index data structure and its file format (SpecIdx) *)

IterPaths(entries) == LET es == IndexIter(entries) IN [i \in 1..Len(es) |-> es[i].path]

AddStep == Len(ilog') = Len(ilog) + 1

\* C5: an index emitted by write_updates and parsed back by load gives exactly the
\* entries that were written: load succeeds, every field of every entry is the one
\* written, the paths come in the same order, and the entries end where the 20-octet
\* trailer begins (no entry's parse takes octets of the next entry or of the trailer)
C5_IndexRoundTrip ==
    /\ ist # "failed"
    /\ ist = "loaded" =>
          /\ iload.ok
          /\ iload.entries = isaved
          /\ IterPaths(iload.entries) = IterPaths(isaved)
          /\ idisk # Absent =>
                /\ iload.pos = Len(SerializeEntries(isaved))
                /\ iload.pos + 20 = Len(idisk)

C5_Witness ==
    /\ ist = "loaded"
    /\ DOMAIN iload.entries = {PathA, PathLen9, PathLen10}
    /\ iload.entries[PathLen10].ino = Big32
    /\ iload.entries[PathA].mode = U32(REGULAR_MODE)

\* C6: no entry's path is a directory prefix of another entry's path
C6_NoDirPrefixPair ==
    \A a \in DOMAIN ientries, b \in DOMAIN ientries : ~ IsDirPrefix(a, b)

\* C7: add(p, oid) leaves exactly the old paths without the proper ancestor
\* directories of p, plus p, and keeps every other entry as it was; staging a, b and
\* then a/b leaves the paths a/b, b in that order
C7_AddDiscardsAncestors ==
    /\ [][AddStep =>
            LET p == ilast'.path
            IN  /\ DOMAIN ientries' = ((DOMAIN ientries) \ ProperAncestors(p)) \cup {p}
                /\ \A k \in (DOMAIN ientries) \ (ProperAncestors(p) \cup {p}) :
                       ientries'[k] = ientries[k]
                /\ ientries'[p] = EntryNew(p, ilast'.oid, ilast'.md)]_vars
    /\ [](ilog = <<PathA, PathB, PathAB>> /\ ist = "mem" =>
              IterPaths(ientries) = <<PathAB, PathB>>)

C7_Witness ==
    /\ ilog = <<PathA, PathB, PathAB>>
    /\ ist = "mem"
    /\ IterPaths(ientries) = <<PathAB, PathB>>

\* C8: an add call that repeats the call before it (same path, oid and stat result)
\* leaves the entries, and so the serialized index, as the first call left them
C8_AddIdempotent ==
    [][AddStep /\ ilast' = ilast =>
          /\ ientries' = ientries
          /\ EmitIndex(ientries', Unlimited) = EmitIndex(ientries, Unlimited)]_vars

C8_Witness ==
    /\ irepeat
    /\ Cardinality(DOMAIN ientries) >= 2

-----------------------------------------------------------------------------
(* Claims about locks, the index file and the order of writes (Spec) *)

\* the paths the commands lock
LockedPaths == {"index", "HEAD"}

\* p's next step is its call of hold_for_update(path)
Calls(p, path) == pc[p] = (IF path = "index" THEN "add_lock" ELSE "head_lock")

\* p has a guard for path that it has neither committed nor dropped
Holds(p, path) ==
    IF path = "index" THEN pc[p] \in {"add_load", "add_file", "add_commit"}
    ELSE pc[p] \in {"head_write", "head_commit"}

Holders(path) == {p \in Procs : Holds(p, path)}

\* p's step is a commit of its guard for path that succeeds
CommitsLock(p, path) ==
    /\ pc[p] = (IF path = "index" THEN "add_commit" ELSE "head_commit")
    /\ outcome'[p] = "ok"

\* C1: at most one process holds the lock of a path at any time; a call of
\* hold_for_update made while the lock file exists gives no guard, leaves the path and
\* the lock file (and every other file) as they were, and ends the caller's command
\* with the Busy error in that very step, without another attempt
C1_LockMutualExclusion ==
    /\ [](\A path \in LockedPaths : Cardinality(Holders(path)) <= 1)
    /\ [][\A p \in Procs, path \in LockedPaths :
              Calls(p, path) /\ pc'[p] # pc[p] =>
                 IF fs[LockPath(path)] # Absent
                 THEN fs' = fs /\ db' = db /\ pc'[p] = "idle" /\ outcome'[p] = "busy"
                 ELSE fs'[LockPath(path)] = <<>> /\ fs'[path] = fs[path] /\ Holders(path) = {}]_vars

C1_Witness ==
    /\ ncmds = 2
    /\ Holds(1, "index")
    /\ fs["index.lock"] # Absent
    /\ pc[2] = "idle"
    /\ outcome[2] = "busy"

\* C2: whenever no process holds a guard for a path (each guard was committed or
\* dropped), the path's lock file does not exist, so the next hold_for_update succeeds
C2_DroppedLockIsReleased ==
    \A path \in LockedPaths : Holders(path) = {} => fs[LockPath(path)] = Absent

\* C3: a successful commit of the guard for a path leaves the path with exactly the
\* octets written through the guard, in write order, and without its lock file, and
\* touches no other file and no object; the path's content changes in no other step
C3_LockCommit ==
    [][/\ \A p \in Procs, path \in LockedPaths :
              CommitsLock(p, path) =>
                 /\ fs'[path] = loc[p].written
                 /\ fs'[LockPath(path)] = Absent
                 /\ \A f \in FileNames \ {path, LockPath(path)} : fs'[f] = fs[f]
                 /\ db' = db
       /\ \A path \in LockedPaths :
              fs'[path] # fs[path] => \E p \in Procs : CommitsLock(p, path)]_vars

C3_Witness ==
    /\ fs["index"] # Absent
    /\ fs["index.lock"] = Absent
    /\ Len(fs["HEAD"]) = 41
    /\ fs["HEAD.lock"] = Absent
    /\ \A p \in Procs : pc[p] = "idle"

\* C4: the index file is absent or a complete index: header, entries and trailer
\* that parse and whose checksum verifies
C4_IndexAtomic == fs["index"] = Absent \/ LoadEntries(fs["index"]).ok

\* C9: when a command that holds the index lock ends before it reaches the commit of
\* the lock (nothing staged, load failed, pathspec unmatched, file unreadable, store
\* failed), index.lock does not exist afterwards and the index file is as it was
C9_LockReleasedOnExit ==
    [][\A p \in Procs :
          pc[p] \in {"add_load", "add_file"} /\ pc'[p] = "idle" =>
             fs'["index.lock"] = Absent /\ fs'["index"] = fs["index"]]_vars

\* the oids named by the entries of an index file
EntryOids(entries) == {ToHex(entries[k].oid) : k \in DOMAIN entries}
HeaderOids(hdr) ==
    IF hdr.ok THEN EntryOids(ReadEntries(hdr.r, hdr.count, NoEntries).entries) ELSE {}
IndexOids(content) ==
    IF content = Absent THEN {} ELSE HeaderOids(ReadHeader(NewReader(content)))

\* the oid HEAD names
HeadOids(files) == IF ReadHead(files).some THEN {ReadHead(files).value} ELSE {}

\* every oid named on disk: by the index, by HEAD, by a stored tree or commit
NamedOids(files, objects) ==
    IndexOids(files["index"]) \cup HeadOids(files)
    \cup UNION {objects[o].refs : o \in DOMAIN objects}

\* C10: an object is in the database before anything that names it is persisted: the
\* blobs before the index that lists them is committed, the oids a tree or commit
\* names (subtrees, blobs, root tree, parent) before that tree or commit is stored, the
\* commit before HEAD is set to it; so every oid named on disk is in the database
C10_ReferentialIntegrity ==
    /\ [](NamedOids(fs, db) \subseteq DOMAIN db)
    /\ [][/\ fs'["index"] # fs["index"] => IndexOids(fs'["index"]) \subseteq DOMAIN db
          /\ fs'["HEAD"] # fs["HEAD"] => HeadOids(fs') \subseteq DOMAIN db
          /\ \A o \in (DOMAIN db') \ (DOMAIN db) : db'[o].refs \subseteq DOMAIN db]_vars

C10_Witness ==
    /\ fs["index"] # Absent
    /\ \E c \in HeadOids(fs) :
          \E t \in db[c].refs : \E s \in db[t].refs : db[s].refs # {}

-----------------------------------------------------------------------------
(* Claims about the object database (SpecDb) *)

\* the file under a path of the object directory
FileAt(path) == onames[path].octets

\* C11: every file that exists under an object's final path holds the complete zlib
\* stream of the object's canonical serialization "<type> <len>\0<payload>", in
\* every state, the states between the rename and the end of store included.
C11_NoPartialObject ==
    \A rec \in olog :
        /\ rec.path \in DOMAIN onames
        /\ FileAt(rec.path) = Zlib(ToBytes(rec.type, rec.payload))

\* "<type> <decimal length>\0<payload>"
CanonicalBytes(type, payload) ==
    Octets(type) \o <<Octet(32)>> \o Octets(Decimal(Len(payload))) \o <<Octet(0)>> \o payload

\* C12: the oid store uses for an object is the hex SHA-1 of its canonical bytes, the
\* object is renamed to <first 2 hex digits>/<other 38>, and two objects have the
\* same oid and path exactly when type and payload are equal.
C12_ObjectIdentity ==
    /\ \A p \in Procs :
           ostore[p].pc # "idle" =>
               ostore[p].oid = ToHex(Sha1(CanonicalBytes(ostore[p].type, ostore[p].payload)))
    /\ \A rec \in olog :
           /\ rec.oid = ToHex(Sha1(CanonicalBytes(rec.type, rec.payload)))
           /\ Len(rec.oid) = 40
           /\ Len(rec.path.dir) = 2
           /\ Len(rec.path.name) = 38
           /\ rec.path.dir \o rec.path.name = rec.oid
           /\ rec.path \in DOMAIN onames
    /\ \A r1, r2 \in olog :
           /\ (r1.oid = r2.oid) <=> (r1.type = r2.type /\ r1.payload = r2.payload)
           /\ (r1.path = r2.path) <=> (r1.type = r2.type /\ r1.payload = r2.payload)

\* a blob and a tree of the same (empty) payload are both stored
C12_Witness ==
    \E r1, r2 \in olog :
        /\ r1.type = TypeBlob
        /\ r2.type = TypeTree
        /\ r1.payload = r2.payload
        /\ r1.path # r2.path

\* every store call so far returned Ok, and once no store runs every object renamed
\* is one complete file under its final path and no temp file is left
StoresSettle ==
    /\ \A p \in Procs : ostore[p].result \in {"none", "ok"}
    /\ (\A p \in Procs : ostore[p].pc = "idle") =>
           /\ \A rec \in olog : /\ rec.path \in DOMAIN onames
                                /\ FileAt(rec.path) = Zlib(rec.bytes)
           /\ \A n \in DOMAIN onames : \E rec \in olog : n = rec.path

-----------------------------------------------------------------------------
(* Claims about ChecksummedFile (SpecSum) *)

\* C14: after any write calls and a write_hash that returned Ok, whatever part of
\* each buffer the sink took, the sink ends with exactly 20 octets that are the
\* SHA-1 of all the octets it received before them.
C14_WriterTrailer ==
    cwst = "hashed" =>
        /\ Len(cw.out) >= 20
        /\ SubSeq(cw.out, Len(cw.out) - 19, Len(cw.out))
               = Sha1(SubSeq(cw.out, 1, Len(cw.out) - 20))

\* C15: after any read calls, short ones included, verify_checksum returns true
\* exactly when the next 20 octets of the source are the SHA-1 of the octets the
\* reads returned to the caller.
C15_ReaderVerify ==
    crver.called =>
        ((crver.ok /\ crver.equal)
            <=> (/\ Len(cr.src) - cr.pos >= 20
                 /\ SubSeq(cr.src, cr.pos + 1, cr.pos + 20) = Sha1(crgot)))

-----------------------------------------------------------------------------
(* Claims about Index::load of damaged files (SpecFile) *)

\* the file is header, entries and trailer, and one of: the first 4 octets are not
\* "DIRC"; the next 4 are not the number 2; the last 20 are not the SHA-1 of all
\* octets before them
Corrupt(bytes) ==
    \/ SubSeq(bytes, 1, 4) # <<<<68>>, <<73>>, <<82>>, <<67>>>>
    \/ SubSeq(bytes, 5, 8) # <<<<0>>, <<0>>, <<0>>, <<2>>>>
    \/ SubSeq(bytes, Len(bytes) - 19, Len(bytes)) # Sha1(SubSeq(bytes, 1, Len(bytes) - 20))

\* C16: load of an index file whose signature is not "DIRC", whose version is not 2
\* or whose 20-octet trailer is not the SHA-1 of the octets before it returns an
\* error and no entries; such is every file with one octet altered after writing.
C16_LoadRejectsCorrupt ==
    /\ (fdamage.kind = "altered") => Corrupt(fbytes)
    /\ (fload.done /\ fdamage.kind # "appended" /\ Corrupt(fbytes)) =>
           (~ fload.ok /\ fload.entries = NoEntries)

\* a file of two entries with an octet of the second entry altered was loaded
C16_Witness ==
    /\ fload.done
    /\ fdamage.kind = "altered"
    /\ Cardinality(DOMAIN fentries) = 2
    /\ fdamage.at > Len(fbytes) - 20 - 72
    /\ fdamage.at <= Len(fbytes) - 20
    /\ SubSeq(fbytes, 1, 8) = <<<<68>>, <<73>>, <<82>>, <<67>>, <<0>>, <<0>>, <<0>>, <<2>>>>
    /\ ~ fload.ok

\* C17: load of a valid index file (header, count entries, correct trailer) with one
\* or more octets after the trailer fails.
C17_LoadRejectsTrailingBytes ==
    (fload.done /\ fdamage.kind = "appended") => ~ fload.ok

-----------------------------------------------------------------------------
(* Claims about Tree::build (SpecTree) and the order of the index (SpecIdx) *)

\* the names in names, ascending bytewise by key[name]
RECURSIVE SortedBy(_, _)
SortedBy(names, key) ==
    IF names = {} THEN <<>>
    ELSE LET least == CHOOSE n \in names : \A m \in names \ {n} : LexLess(key[n], key[m])
         IN  <<least>> \o SortedBy(names \ {least}, key)

\* an entry's name
ByName(tree) == [k \in DOMAIN tree.entries |-> k]

\* an entry's name, a subdirectory's name followed by '/'
ByNameSlash(tree) ==
    [k \in DOMAIN tree.entries |->
        IF tree.entries[k].kind = "tree" THEN Append(k, SLASH) ELSE k]

\* the payload of tree is the one that lists its entries ascending by key
ListedBy(tree, key) ==
    TreeContent(tree) =
        TreeContent([tree EXCEPT !.key_order = SortedBy(DOMAIN tree.entries, key)])

\* the root tree Tree::build returned and every tree below it
BuiltTrees == {Traverse(tout.tree)[i] : i \in DOMAIN Traverse(tout.tree)}

\* C18 as stated: in every tree produced by Tree::build the payload lists the entries
\* in ascending byte order of the entry names, for files and subdirectories alike.
C18_TreeEntryOrder ==
    (tout.done /\ tout.ok) => \A tree \in BuiltTrees : ListedBy(tree, ByName(tree))

\* C18 amended: in every tree produced by Tree::build the payload lists the entries
\* in ascending byte order of the entry names, where the name of a subdirectory is
\* compared as if it were followed by '/'.
C18_TreeEntryOrderSlash ==
    (tout.done /\ tout.ok) => \A tree \in BuiltTrees : ListedBy(tree, ByNameSlash(tree))

\* a root tree was built that holds the file "a.b" and the directory "a", given in
\* the order "a/b", "a.b"
C18_Witness ==
    /\ tout.done /\ tout.ok
    /\ Len(tin) >= 2 /\ tin[1].rel_path = PathAB /\ tin[2].rel_path = PathADotB
    /\ tout.tree.key_order = <<PathADotB, PathA>>
    /\ tout.tree.entries[PathA].kind = "tree"

\* the directories above path, as lists of components
IsProperAncestor(p, q) ==
    /\ Len(Components(p)) < Len(Components(q))
    /\ SubSeq(Components(q), 1, Len(Components(p))) = Components(p)

\* files has a record whose path is a proper ancestor directory of another record's
Conflicting(files) ==
    \E i, j \in DOMAIN files : IsProperAncestor(files[i].rel_path, files[j].rel_path)

\* C19: when the input of Tree::build has a record with path p and a record whose
\* path has p as a proper ancestor directory, the build fails (the one error
\* add_entry returns, "A parent of X is not a directory") and returns no tree,
\* whatever the order of the records.
C19_FileDirectoryConflict ==
    (tout.done /\ Conflicting(tin)) => (~ tout.ok /\ tout.tree = EmptyTree)

\* a build was called with "a/b/c" given first, "b" second and "a" last
C19_Witness ==
    /\ tout.done
    /\ Len(tin) = 3
    /\ tin[1].rel_path = PathABC /\ tin[2].rel_path = PathB /\ tin[3].rel_path = PathA
    /\ ~ tout.ok

\* the paths of entries, ascending bytewise by the whole path string
ByPathString(entries) == SortedBy(DOMAIN entries, [k \in DOMAIN entries |-> k])

\* C20: iter() yields, and write_updates emits, the entries in strictly ascending
\* bytewise order of their full path strings ("a.b" before "a/b", '.' being below '/').
C20_SerializationOrder ==
    /\ \A i \in 1..(Len(IterPaths(ientries)) - 1) :
           LexLess(IterPaths(ientries)[i], IterPaths(ientries)[i + 1])
    /\ SerializeEntries(ientries) =
           Octets(SIGNATURE) \o BeU32(U32(VERSION))
           \o BeU32(U32(Cardinality(DOMAIN ientries)))
           \o Concat([i \in 1..Cardinality(DOMAIN ientries) |->
                         EntrySerialize(ientries[ByPathString(ientries)[i]])])

-----------------------------------------------------------------------------
(* Claims about the entry add creates and its serialized form (SpecEntry) *)

\* the entry's mode when any of the three execute bits decides
ModeByAnyBit(mode) == IF AnyExecBit(mode) = 1 THEN U32(EXECUTABLE_MODE) ELSE U32(REGULAR_MODE)

\* the entry's mode when the owner execute bit decides
ModeByOwnerBit(mode) ==
    IF OwnerExecBit(mode) = 1 THEN U32(EXECUTABLE_MODE) ELSE U32(REGULAR_MODE)

\* the index holds no mode but 100644 and 100755
OnlyFileModes ==
    \A p \in DOMAIN ientries : ientries[p].mode \in {U32(REGULAR_MODE), U32(EXECUTABLE_MODE)}

\* C21 as stated: the entry add creates has mode 100755 when at least one of the
\* three execute bits (owner, group, other) of the file is set and 100644 otherwise,
\* and no other mode is ever recorded.
C21_EntryMode ==
    /\ ilast # NoAdd => ientries[ilast.path].mode = ModeByAnyBit(ilast.md.mode)
    /\ OnlyFileModes

\* C21 amended: the entry add creates has mode 100755 when the owner execute bit
\* (0o100) of the file is set and 100644 otherwise, whatever the group and other
\* execute bits, and no other mode is ever recorded.
C21_EntryModeOwnerBit ==
    /\ ilast # NoAdd => ientries[ilast.path].mode = ModeByOwnerBit(ilast.md.mode)
    /\ OnlyFileModes

\* a file with the group execute bit and without the owner execute bit was staged
\* as 100644
C21_Witness ==
    /\ ilast # NoAdd
    /\ OwnerExecBit(ilast.md.mode) = 0
    /\ (ilast.md.mode.lo \div 8) % 2 = 1
    /\ ientries[ilast.path].mode = U32(REGULAR_MODE)

\* octets is 62 octets of fields, the path, and 1 to 8 NULs up to a multiple of 8
IsEntryOf(octets, path) ==
    \E k \in 1..8 :
        /\ Len(octets) = 62 + Len(path) + k
        /\ Len(octets) % 8 = 0
        /\ SubSeq(octets, 63, 62 + Len(path)) = Octets(path)
        /\ SubSeq(octets, 63 + Len(path), Len(octets)) = Repeat(NUL, k)

\* bytes holds from offset at on one such entry per path, then the 20-octet trailer
RECURSIVE EntriesLaidOut(_, _, _)
EntriesLaidOut(bytes, at, paths) ==
    IF paths = <<>> THEN at + 20 = Len(bytes)
    ELSE \E len \in 64..(Len(bytes) - at) :
             /\ IsEntryOf(SubSeq(bytes, at + 1, at + len), Head(paths))
             /\ EntriesLaidOut(bytes, at + len, Tail(paths))

\* C25: the serialized entry of a path of L >= 1 octets is 62 + L + k octets long,
\* k NULs after the path with 1 <= k <= 8, the length a multiple of 8 (64 at least),
\* and so is every entry in the index file, whatever its offset.
C25_EntryLength ==
    /\ \A p \in DOMAIN ientries :
           /\ IsEntryOf(EntrySerialize(ientries[p]), p)
           /\ Len(EntrySerialize(ientries[p])) >= ENTRY_MIN_SIZE
    /\ idisk # Absent => EntriesLaidOut(idisk, HEADER_SIZE, IterPaths(isaved))

\* an index file with the entries of "a" (64 octets, one NUL) and "aa" (72 octets,
\* eight NULs) was written
C25_Witness ==
    /\ ist = "saved"
    /\ DOMAIN isaved = {PathOfLen(1), PathOfLen(2)}
    /\ Len(idisk) = HEADER_SIZE + 64 + 72 + 20
    /\ SubSeq(idisk, HEADER_SIZE + 64 + 65, HEADER_SIZE + 64 + 72) = Repeat(NUL, 8)

-----------------------------------------------------------------------------
(* Claims about loading an index file that cannot be opened (SpecOpen) *)

\* C27: load gives an empty index without error only when the index file does not
\* exist (a file that exists and cannot be opened makes load fail), so the index
\* file written after further add calls holds every path staged so far.
C27_EmptyOnlyWhenMissing ==
    /\ (ist = "loaded" /\ iload.ok /\ iload.entries = NoEntries) => idisk = Absent
    /\ (ist = "saved" /\ idisk # Absent) =>
           \A i \in DOMAIN ilog : ilog[i] \in DOMAIN LoadEntries(idisk).entries

-----------------------------------------------------------------------------
(* Claims about Tree::traverse (SpecTree) *)

\* the root and every directory above one of the records
InputDirs == {<<>>} \cup UNION {Ancestors(tin[i].rel_path) \ {tin[i].rel_path} : i \in DOMAIN tin}

\* each directory is called at most once, and after every directory below it
PostOrder(calls) ==
    \A i, j \in DOMAIN calls :
        /\ (i # j) => calls[i] # calls[j]
        /\ (calls[j] \in Ancestors(calls[i]) \ {calls[i]}) => i < j

\* C24: on a tree built from records with distinct paths, traverse calls the
\* callback exactly once for the root and once for every directory above a record,
\* for nothing else, each subtree before its parent; when a callback returns Err the
\* traversal stops there and no ancestor of that tree is handed to the callback. The
\* records a/b/c and a/d give the calls a/b, a, root.
C24_TraversePostOrder ==
    twalk.done =>
        /\ PostOrder(twalk.calls)
        /\ {twalk.calls[i] : i \in DOMAIN twalk.calls} \subseteq InputDirs
        /\ twalk.ok =>
               /\ {twalk.calls[i] : i \in DOMAIN twalk.calls} = InputDirs
               /\ twalk.fails \cap InputDirs = {}
        /\ ~ twalk.ok =>
               /\ twalk.calls # <<>>
               /\ twalk.calls[Len(twalk.calls)] \in twalk.fails
               /\ \A i \in 1..(Len(twalk.calls) - 1) : twalk.calls[i] \notin twalk.fails
        /\ ({tin[i].rel_path : i \in DOMAIN tin} = {PathABC, PathAD} /\ twalk.ok) =>
               twalk.calls = <<PathAB, PathA, <<>>>>
        /\ [i \in DOMAIN Traverse(tout.tree) |-> TreeContent(Traverse(tout.tree)[i])]
               = [i \in DOMAIN TraverseFrom(tout.tree, <<>>, 1, {}).calls |->
                     TreeContent(TraverseFrom(tout.tree, <<>>, 1, {}).calls[i].tree)]

\* the tree of a/b/c, a/d and b was walked with a callback that fails for a/b: one
\* call was made
C24_Witness ==
    /\ twalk.done /\ ~ twalk.ok
    /\ {tin[i].rel_path : i \in DOMAIN tin} = {PathABC, PathAD, PathB}
    /\ twalk.fails = {PathAB}
    /\ twalk.calls = <<PathAB>>

-----------------------------------------------------------------------------
(* Claims about HEAD and the chain of commits (Spec, SpecSeq) *)

\* p's step is the rename that ends a successful update_head
UpdatesHead(p) == CommitsLock(p, "HEAD") /\ pc'[p] = "idle"

\* C22: read_head gives none when the HEAD file does not exist; when update_head(x)
\* succeeds the HEAD file holds exactly x and one newline and read_head gives x; HEAD
\* changes by a successful update_head only, so read_head gives the oid of the last one.
C22_HeadRoundTrip ==
    /\ [](fs["HEAD"] = Absent => ~ ReadHead(fs).some)
    /\ [][\A p \in Procs : UpdatesHead(p) =>
              /\ Len(CommitOid(loc[p].commit)) = 40
              /\ fs'["HEAD"] = CommitOid(loc[p].commit) \o <<Octet(NEWLINE)>>
              /\ ReadHead(fs') = Some(CommitOid(loc[p].commit))]_vars
    /\ [][fs'["HEAD"] # fs["HEAD"] => \E p \in Procs : UpdatesHead(p)]_vars

\* update_head has succeeded twice: HEAD names a commit that has a parent
C22_Witness ==
    /\ \A p \in Procs : pc[p] = "idle"
    /\ ReadHead(fs).some
    /\ ReadHead(fs).value \in DOMAIN db
    /\ Cardinality(db[ReadHead(fs).value].refs) = 2
    /\ fs["HEAD"] = ReadHead(fs).value \o <<Octet(NEWLINE)>>

\* the octets of "parent "
ParentWord == Octets(<<112, 97, 114, 101, 110, 116, 32>>)

\* the oid on the parent line of a commit payload, none when the line after the
\* 46 octets of "tree <oid>\n" is no parent line
ParentLine(content) ==
    IF Len(content) >= 93 /\ SubSeq(content, 47, 53) = ParentWord
    THEN Some(SubSeq(content, 54, 93)) ELSE None

\* C23: with the commands run one after another, a commit that succeeds has stored a
\* commit object whose parent line names the oid HEAD held when the command started
\* (no parent line exactly when there was no HEAD) and sets HEAD to the new commit's
\* oid; HEAD changes in no other step, so a commit that fails leaves it as it was.
C23_CommitChain ==
    /\ [][\A p \in Procs : UpdatesHead(p) =>
              /\ ParentLine(CommitContent(loc[p].commit)) = ReadHead(fs)
              /\ CommitOid(loc[p].commit) \in DOMAIN db
              /\ db[CommitOid(loc[p].commit)].bytes
                     = StoreBytes(TypeCommit, CommitContent(loc[p].commit))
              /\ ReadHead(fs') = Some(CommitOid(loc[p].commit))]_vars
    /\ [][fs'["HEAD"] # fs["HEAD"] => \E p \in Procs : UpdatesHead(p)]_vars

\* three commits were run in turn: the second failed, the third succeeded and names
\* the first as its parent
C23_Witness ==
    /\ ncmds = 3
    /\ \A p \in Procs : pc[p] = "idle"
    /\ outcome[1] = "ok" /\ outcome[2] = "error"
    /\ ReadHead(fs).some
    /\ ReadHead(fs).value \in DOMAIN db
    /\ Cardinality(db[ReadHead(fs).value].refs) = 2

\* the oids reached from oids in at most n steps along the oids an object names
RECURSIVE ReachableFrom(_, _, _)
ReachableFrom(objects, oids, n) ==
    IF n = 0 THEN oids
    ELSE ReachableFrom(objects,
                       oids \cup UNION {objects[o].refs : o \in oids \cap DOMAIN objects},
                       n - 1)

\* C26: no commit is lost when commit commands interleave: the commit HEAD names
\* immediately before a command's HEAD update is the parent or an ancestor of the
\* commit that update sets (or that very commit), so no other command's HEAD update
\* comes unseen between a command's read of HEAD and its update of HEAD.
C26_NoLostCommit ==
    [][\A p \in Procs : (UpdatesHead(p) /\ ReadHead(fs).some) =>
           ReadHead(fs).value \in
               ReachableFrom(db, {CommitOid(loc[p].commit)}, Cardinality(DOMAIN db))]_vars

=============================================================================
